---- MODULE Spec2Model ----
(***************************************************************************)
(* Order lifecycle and distribution engine of the COD verifier             *)
(* (src/app.py over src/database.py): ingestion, distribute_orders,        *)
(* api_update_status, api_edit_order and the administrative routes.        *)
(*                                                                         *)
(* Every Database method opens its own connection and commits on exit      *)
(* (get_connection), so one method call is one atomic step of the model    *)
(* and a request handler is a sequence of such steps.                      *)
(***************************************************************************)
EXTENDS Integers, Sequences, FiniteSets, TLC

(***************************************************************************)
(* Bounds of the model.                                                    *)
(***************************************************************************)
MaxOrders == 2
MaxCalls == 2
MaxBatch == 1
MaxAssignments == 2
MaxEdits == 1
MaxUploadRows == 12

(***************************************************************************)
(* SQL NULL / Python None: 0 in an integer or timestamp column (ids and    *)
(* the clock start at 1), NULLTEXT in a text column.                       *)
(***************************************************************************)
NULL == 0
NULLTEXT == "<NULL>"

\* datetime.now() / CURRENT_TIMESTAMP: the one instant of the model
now == 1

(***************************************************************************)
(* Text helpers: Python's str.lower, `in` (substring), str.startswith and  *)
(* the digit filter, computed character by character.                      *)
(***************************************************************************)
Upper == "ABCDEFGHIJKLMNOPQRSTUVWXYZ"
Lower == "abcdefghijklmnopqrstuvwxyz"
Digits == "0123456789"

CharAt(s, i) == SubSeq(s, i, i)

IsIn(ch, alphabet) == \E k \in 1..Len(alphabet) : CharAt(alphabet, k) = ch

lower_char(ch) ==
    IF IsIn(ch, Upper)
    THEN CharAt(Lower, CHOOSE k \in 1..Len(Upper) : CharAt(Upper, k) = ch)
    ELSE ch

RECURSIVE lower(_)
lower(s) ==
    IF Len(s) = 0 THEN s
    ELSE lower_char(CharAt(s, 1)) \o lower(SubSeq(s, 2, Len(s)))

contains(s, sub) ==
    \E i \in 1..(Len(s) - Len(sub) + 1) : SubSeq(s, i, i + Len(sub) - 1) = sub

startswith(s, prefix) ==
    Len(s) >= Len(prefix) /\ SubSeq(s, 1, Len(prefix)) = prefix

count_digits(s) == Cardinality({i \in 1..Len(s) : IsIn(CharAt(s, i), Digits)})

RECURSIVE strip(_)
strip(s) ==
    IF Len(s) = 0 THEN s
    ELSE IF CharAt(s, 1) = " " THEN strip(SubSeq(s, 2, Len(s)))
    ELSE IF CharAt(s, Len(s)) = " " THEN strip(SubSeq(s, 1, Len(s) - 1))
    ELSE s

\* a cut that keeps the end of the text
truncate_last(s, n) ==
    IF Len(s) > n THEN SubSeq(s, Len(s) - n + 1, Len(s)) ELSE s

truncate(s, n) == IF Len(s) > n THEN SubSeq(s, 1, n) ELSE s

(***************************************************************************)
(* Sequence helpers.                                                       *)
(***************************************************************************)
RECURSIVE SelectRows(_, _, _)
SelectRows(rows, keep, i) ==
    IF i > Len(rows) THEN <<>>
    ELSE IF rows[i] \in keep THEN <<rows[i]>> \o SelectRows(rows, keep, i + 1)
    ELSE SelectRows(rows, keep, i + 1)

Range(seq) == {seq[i] : i \in 1..Len(seq)}

SeqsUpTo(S, n) == UNION {[1..k -> S] : k \in 0..n}

(***************************************************************************)
(* Program data: the stores and callers created by init_default_data, the  *)
(* clients of shopify_manager, and the accepted disposition codes.         *)
(***************************************************************************)
shopify_stores ==
    << [id |-> 1, name |-> "Indian Goods Hub"],
       [id |-> 2, name |-> "Mummamitra"],
       [id |-> 3, name |-> "Paaltubazaar"] >>

manager_stores == {"Indian Goods Hub", "Mummamitra", "Paaltubazaar"}

CallerIds == 2..6

valid_statuses ==
    << "confirm on call", "confirm on whatsapp call",
       "confirm on text", "confirm on whatsapp text",
       "cancel on call", "cancel on whatsapp call",
       "cancel on whatsapp text", "cancel on text",
       "not received", "line busy", "call forwarded",
       "incoming not available", "call declined", "language barrier",
       "call not connected", "seen no reply", "undelivered",
       "number not on whatsapp" >>

Statuses == {"pending", "assigned", "calling", "confirmed", "cancelled"}

(***************************************************************************)
(* Inputs of the requests, drawn from small sets.                          *)
(***************************************************************************)
Today == "today"
Yesterday == "yesterday"

CallerInputs == {2, 3}

\* the caller_id a disposition request carries
DispositionCallerInputs == {2}

StatusInputs == {"Confirm on Call", "cancel on text", "Line Busy", "Bogus Code"}

AssignmentInputs ==
    { [store_id |-> 1, caller_id |-> 2, assigned_date |-> Today],
      [store_id |-> 1, caller_id |-> 3, assigned_date |-> Today],
      [store_id |-> 1, caller_id |-> 3, assigned_date |-> Yesterday] }

(***************************************************************************)
(* Order Store: the tables of database.py.  A table is the sequence of its *)
(* rows in insertion order (for orders also the order of created_at).  The *)
(* columns no handler reads back (product_name, price, qty, order_date,    *)
(* created_at, updated_at) are left out.                                   *)
(***************************************************************************)
NoRow == [id |-> NULL]

\* a row as it would start if the attempts column defaulted to 1
OrderRow_first_attempt(id, order_id, store_id, order_type, customer_name, phone, address, pincode) ==
    [ id |-> id, order_id |-> order_id, store_id |-> store_id,
      order_type |-> order_type, customer_name |-> customer_name,
      phone |-> phone, address |-> address, pincode |-> pincode,
      status |-> "pending", final_status |-> NULLTEXT, assigned_to |-> NULL,
      assigned_at |-> NULL, completed_at |-> NULL, attempts |-> 1,
      edited_customer_name |-> NULLTEXT, edited_phone |-> NULLTEXT,
      edited_address |-> NULLTEXT, edited_pincode |-> NULLTEXT,
      edited_at |-> NULL, shopify_synced_at |-> NULL ]

OrderRow(id, order_id, store_id, order_type, customer_name, phone, address, pincode) ==
    [ id |-> id, order_id |-> order_id, store_id |-> store_id,
      order_type |-> order_type, customer_name |-> customer_name,
      phone |-> phone, address |-> address, pincode |-> pincode,
      status |-> "pending", final_status |-> NULLTEXT,
      assigned_to |-> NULL, assigned_at |-> NULL, completed_at |-> NULL,
      attempts |-> 0,
      edited_customer_name |-> NULLTEXT, edited_phone |-> NULLTEXT,
      edited_address |-> NULLTEXT, edited_pincode |-> NULLTEXT,
      edited_at |-> NULL, shopify_synced_at |-> NULL ]

\* the constraints of a table whose order_id is not declared UNIQUE
order_constraints_no_unique(ords, order_id, order_type, phone) ==
    /\ order_id # NULLTEXT
    /\ phone # NULLTEXT
    /\ order_type \in {"cod", "abandoned_cart"}

\* order_id TEXT UNIQUE NOT NULL, phone TEXT NOT NULL, CHECK(order_type ...)
order_constraints(ords, order_id, order_type, phone) ==
    /\ order_id # NULLTEXT
    /\ phone # NULLTEXT
    /\ order_type \in {"cod", "abandoned_cart"}
    /\ \A i \in 1..Len(ords) : ords[i].order_id # order_id

\* Database.create_order: the new table, or the table as it was when the
\* INSERT raises (the transaction is rolled back).
create_order(ords, id, order_id, store_id, order_type, customer_name, phone, address, pincode) ==
    IF order_constraints(ords, order_id, order_type, phone)
    THEN Append(ords, OrderRow(id, order_id, store_id, order_type,
                               customer_name, phone, address, pincode))
    ELSE ords

\* a lookup that falls back on the first row of the table
get_order_or_first(ords, order_id) ==
    IF \E i \in 1..Len(ords) : ords[i].order_id = order_id
    THEN ords[CHOOSE i \in 1..Len(ords) : ords[i].order_id = order_id]
    ELSE IF Len(ords) > 0 THEN ords[1] ELSE NoRow

get_order_by_id(ords, order_id) ==
    IF \E i \in 1..Len(ords) : ords[i].order_id = order_id
    THEN ords[CHOOSE i \in 1..Len(ords) : ords[i].order_id = order_id]
    ELSE NoRow

\* a query without its WHERE status = ? clause
get_orders_any_status(ords, status) == ords

get_orders_by_status(ords, status) ==
    SelectRows(ords, {r \in Range(ords) : r.status = status}, 1)

\* the query without its AND status = ?
get_orders_of_caller(ords, caller_id) ==
    SelectRows(ords, {r \in Range(ords) : r.assigned_to = caller_id}, 1)

get_orders_for_caller(ords, caller_id) ==
    SelectRows(ords, {r \in Range(ords) :
                        r.assigned_to = caller_id /\ r.status = "assigned"}, 1)

get_confirmed_cancelled_ids(ords) ==
    {r.order_id : r \in {x \in Range(ords) :
                            x.status \in {"confirmed", "cancelled"}}}

assign_order(ords, order_id, caller_id, t) ==
    [i \in 1..Len(ords) |->
        IF ords[i].order_id = order_id
        THEN [ords[i] EXCEPT !.assigned_to = caller_id, !.assigned_at = t,
                             !.status = "assigned"]
        ELSE ords[i]]

update_order_status(ords, order_id, status, final_status, t) ==
    [i \in 1..Len(ords) |->
        IF ords[i].order_id = order_id
        THEN IF final_status # NULLTEXT /\ final_status # ""
             THEN [ords[i] EXCEPT !.status = status,
                                  !.final_status = final_status,
                                  !.completed_at = t]
             ELSE [ords[i] EXCEPT !.status = status]
        ELSE ords[i]]

\* an UPDATE without its WHERE order_id = ? clause
increment_all_attempts(ords, order_id) ==
    [i \in 1..Len(ords) |-> [ords[i] EXCEPT !.attempts = @ + 1]]

increment_attempts(ords, order_id) ==
    [i \in 1..Len(ords) |->
        IF ords[i].order_id = order_id
        THEN [ords[i] EXCEPT !.attempts = @ + 1]
        ELSE ords[i]]

\* an UPDATE that sets the ingested columns instead of the edited ones
update_order_overwrite(ords, order_id, customer_name, phone, address, pincode, t) ==
    [i \in 1..Len(ords) |->
        IF ords[i].order_id = order_id
        THEN [ords[i] EXCEPT !.customer_name = customer_name,
                             !.phone = phone,
                             !.address = address,
                             !.pincode = pincode,
                             !.edited_at = t]
        ELSE ords[i]]

update_order_edits(ords, order_id, customer_name, phone, address, pincode, t) ==
    [i \in 1..Len(ords) |->
        IF ords[i].order_id = order_id
        THEN [ords[i] EXCEPT !.edited_customer_name = customer_name,
                             !.edited_phone = phone,
                             !.edited_address = address,
                             !.edited_pincode = pincode,
                             !.edited_at = t]
        ELSE ords[i]]

\* an UPDATE whose WHERE clause matches no row
mark_shopify_synced_no_row(ords, order_id, t) == ords

mark_shopify_synced(ords, order_id, t) ==
    [i \in 1..Len(ords) |->
        IF ords[i].order_id = order_id
        THEN [ords[i] EXCEPT !.shopify_synced_at = t]
        ELSE ords[i]]

create_call_log(logs, order_internal_id, caller_id, phone, status) ==
    Append(logs, [id |-> Len(logs) + 1, order_id |-> order_internal_id,
                  caller_id |-> caller_id, phone_dialed |-> phone,
                  status |-> status])

\* a table whose (store_id, caller_id, assigned_date) is not declared UNIQUE
create_assignment_no_unique(asg, store_id, caller_id, assigned_date) ==
    Append(asg, [store_id |-> store_id, caller_id |-> caller_id,
                 assigned_date |-> assigned_date])

\* INSERT ... ON CONFLICT (store_id, caller_id, assigned_date) DO NOTHING
create_assignment(asg, store_id, caller_id, assigned_date) ==
    LET row == [store_id |-> store_id, caller_id |-> caller_id,
                assigned_date |-> assigned_date]
    IN  IF row \in Range(asg) THEN asg ELSE Append(asg, row)

\* the query without its WHERE sa.assigned_date = ?
get_assignments_any_date(asg, date) ==
    SelectRows(asg, {a \in Range(asg) :
                        /\ \E k \in 1..Len(shopify_stores) :
                               shopify_stores[k].id = a.store_id
                        /\ a.caller_id \in CallerIds}, 1)

\* The JOINs on shopify_stores and users keep the rows whose store and
\* caller exist.
get_assignments_for_date(asg, date) ==
    SelectRows(asg, {a \in Range(asg) :
                        /\ a.assigned_date = date
                        /\ \E k \in 1..Len(shopify_stores) :
                               shopify_stores[k].id = a.store_id
                        /\ a.caller_id \in CallerIds}, 1)

get_store_by_id(store_id) ==
    IF \E k \in 1..Len(shopify_stores) : shopify_stores[k].id = store_id
    THEN shopify_stores[CHOOSE k \in 1..Len(shopify_stores) :
                            shopify_stores[k].id = store_id]
    ELSE NoRow

(***************************************************************************)
(* The store client's methods add_order_tags and update_order_customer_info*)
(* are called by app.py and are not part of the ShopifyAPI source at hand; *)
(* they are modelled by their contract: success, non-success, or raise.    *)
(***************************************************************************)
client_results == {"ok", "fail", "raise"}

(***************************************************************************)
(* Ingestion Normalizer: one raw record of a feed is [id, phone, store].   *)
(***************************************************************************)
Phone == "9876543210"
CustomerName == "Asha"
Address == "12 MG Road"
Pincode == "560001"

ShopifyInputs ==
    { [id |-> "#1", phone |-> Phone, store |-> "Indian Goods Hub"],
      [id |-> "#1", phone |-> "", store |-> "Mummamitra"] }

CartInputs ==
    { [id |-> "7", phone |-> Phone, store |-> "Unknown"],
      [id |-> "7", phone |-> Phone, store |-> "MUMMAMITRA app"] }

CsvInputs ==
    { [id |-> "7", phone |-> Phone, store |-> "mummamitra.com"],
      [id |-> "CART-7", phone |-> Phone, store |-> ""],
      [id |-> "", phone |-> Phone, store |-> ""] }

DefaultStoreInputs == {"", "2"}

SourceInputs(source) ==
    CASE source = "shopify" -> ShopifyInputs
      [] source = "abandoned_cart" -> CartInputs
      [] OTHER -> CsvInputs

\* the match on the names and the label as they are written
match_store_cased(label, default) ==
    IF \E k \in 1..Len(shopify_stores) :
           contains(label, shopify_stores[k].name)
    THEN LET ks == {k \in 1..Len(shopify_stores) :
                      contains(label, shopify_stores[k].name)}
         IN  shopify_stores[CHOOSE k \in ks : \A j \in ks : k <= j]
    ELSE default

\* next((s for s in stores if s['name'].lower() in label.lower()), default)
match_store(label, default) ==
    IF \E k \in 1..Len(shopify_stores) :
           contains(lower(label), lower(shopify_stores[k].name))
    THEN LET ks == {k \in 1..Len(shopify_stores) :
                      contains(lower(label), lower(shopify_stores[k].name))}
         IN  shopify_stores[CHOOSE k \in ks : \A j \in ks : k <= j]
    ELSE default

\* upload_carts: stores[0], or the store whose id is the form's default_store
default_store(default_store_id) ==
    IF default_store_id # "" /\ \E k \in 1..Len(shopify_stores) :
           CharAt(Digits, shopify_stores[k].id + 1) = default_store_id
    THEN shopify_stores[CHOOSE k \in 1..Len(shopify_stores) :
           CharAt(Digits, shopify_stores[k].id + 1) = default_store_id]
    ELSE shopify_stores[1]

\* a row parser that prefixes every order id, as the cart loop does
parse_csv_row_prefixed(row, default) ==
    IF row.id = "" \/ row.phone = "" THEN NoRow
    ELSE LET store == IF row.store # "" THEN match_store(row.store, default)
                      ELSE default
         IN [ id |-> 1, order_id |-> "CART-" \o row.id,
              store_id |-> store.id, order_type |-> "abandoned_cart",
              phone |-> row.phone ]

\* parse_csv_row: None (NoRow) without an order id or a phone
parse_csv_row(row, default) ==
    IF row.id = "" \/ row.phone = "" THEN NoRow
    ELSE LET store == IF row.store # "" THEN match_store(row.store, default)
                      ELSE default
         IN [ id |-> 1,
              order_id |-> IF ~ startswith(row.id, "CART-")
                           THEN "CART-" \o row.id ELSE row.id,
              store_id |-> store.id, order_type |-> "abandoned_cart",
              phone |-> row.phone ]

\* fetch_orders, source abandoned_cart: one cart of fetch_abandoned_carts
parse_cart(cart) ==
    [ id |-> 1, order_id |-> "CART-" \o cart.id,
      store_id |-> match_store(cart.store, shopify_stores[1]).id,
      order_type |-> "abandoned_cart", phone |-> cart.phone ]

\* fetch_orders, source shopify: the store row is looked up by the name
\* the manager fetched the order under; without one the order is skipped
parse_shopify(order) ==
    IF \E k \in 1..Len(shopify_stores) : shopify_stores[k].name = order.store
    THEN [ id |-> 1, order_id |-> order.id,
           store_id |-> shopify_stores[CHOOSE k \in 1..Len(shopify_stores) :
                           shopify_stores[k].name = order.store].id,
           order_type |-> "cod", phone |-> order.phone ]
    ELSE NoRow

\* the three parsers, tabulated over the inputs; Normalized is the record
\* the loop of a source's handler hands to db.create_order
ParsedShopify == [order \in ShopifyInputs |-> parse_shopify(order)]

ParsedCart == [cart \in CartInputs |-> parse_cart(cart)]

ParsedCsv ==
    [dflt \in DefaultStoreInputs |->
        [row \in CsvInputs |-> parse_csv_row(row, default_store(dflt))]]

Normalized(source, raw, dflt) ==
    CASE source = "shopify" -> ParsedShopify[raw]
      [] source = "abandoned_cart" -> ParsedCart[raw]
      [] raw \in CsvInputs /\ dflt \in DefaultStoreInputs ->
            ParsedCsv[dflt][raw]
      [] OTHER -> parse_csv_row(raw, default_store(dflt))

(***************************************************************************)
(* Disposition State Machine: validation and classification of a code.     *)
(***************************************************************************)
\* status.lower() not in [s.lower() for s in valid_statuses]
valid_lowered == {lower(valid_statuses[k]) : k \in 1..Len(valid_statuses)}

\* a validation that only asks for a code
is_nonempty_status(status) == Len(status) > 0

is_valid_status(status) == lower(status) \in valid_lowered

\* the branches, on the code as submitted instead of its lower case
resulting_status_cased(status) ==
    IF contains(status, "confirm") THEN "confirmed"
    ELSE IF contains(status, "cancel") THEN "cancelled"
    ELSE "assigned"

\* the three branches of api_update_status
resulting_status(status) ==
    IF contains(lower(status), "confirm") THEN "confirmed"
    ELSE IF contains(lower(status), "cancel") THEN "cancelled"
    ELSE "assigned"

\* the branches with the tag of the first copied into the second
resulting_tag_copied(status) ==
    IF contains(lower(status), "confirm") THEN "COD-Confirmed"
    ELSE IF contains(lower(status), "cancel") THEN "COD-Confirmed"
    ELSE "COD-Retry"

resulting_tag(status) ==
    IF contains(lower(status), "confirm") THEN "COD-Confirmed"
    ELSE IF contains(lower(status), "cancel") THEN "COD-Cancelled"
    ELSE "COD-Retry"

\* the three, tabulated over the inputs
Disposition ==
    [status \in StatusInputs |->
        [ valid |-> is_valid_status(status),
          status |-> resulting_status(status),
          tag |-> resulting_tag(status) ]]

(***************************************************************************)
(* Assignment Planner: caller_assignments groups the date's rows by caller *)
(* in the order callers first appear; an order goes to the first caller    *)
(* of that order whose stores contain the order's store.                   *)
(***************************************************************************)
first_row(assignments, caller_id) ==
    CHOOSE i \in 1..Len(assignments) :
        /\ assignments[i].caller_id = caller_id
        /\ \A j \in 1..Len(assignments) :
               assignments[j].caller_id = caller_id => i <= j

callers_for_store(assignments, store_id) ==
    {a.caller_id : a \in {x \in Range(assignments) : x.store_id = store_id}}

\* the first caller of the date, whatever the store
pick_first_caller(assignments, store_id) ==
    IF Len(assignments) = 0 THEN NULL ELSE assignments[1].caller_id

\* the caller of the first row of the date that names the store
pick_first_row(assignments, store_id) ==
    IF callers_for_store(assignments, store_id) = {} THEN NULL
    ELSE assignments[CHOOSE i \in 1..Len(assignments) :
            /\ assignments[i].store_id = store_id
            /\ \A j \in 1..Len(assignments) :
                   assignments[j].store_id = store_id => i <= j].caller_id

pick_caller(assignments, store_id) ==
    LET cs == callers_for_store(assignments, store_id)
    IN  IF cs = {} THEN NULL
        ELSE CHOOSE c \in cs : \A d \in cs :
                 first_row(assignments, c) <= first_row(assignments, d)

(***************************************************************************)
(* State.                                                                  *)
(*   orders, call_logs, store_assignments : the tables                     *)
(*   next_order_id : the SERIAL sequence of orders.id                      *)
(*   intents       : the calls of add_shopify_tag_async, in order, each    *)
(*                   with the number of calls it made on a store client    *)
(*   proc          : the request each worker is serving, its position and  *)
(*                   its local variables                                   *)
(*   settled       : a distribute_orders run has completed and no table    *)
(*                   has changed since (history variable)                  *)
(*   workers       : how many requests the server runs at the same time    *)
(***************************************************************************)
VARIABLES orders, call_logs, store_assignments, next_order_id, intents,
          proc, settled, workers

vars == <<orders, call_logs, store_assignments, next_order_id, intents,
          proc, settled, workers>>

Procs == {1, 2}

Idle ==
    [ op |-> "idle", pc |-> "idle", source |-> NULLTEXT, batch |-> <<>>,
      default_store_id |-> "", order_id |-> NULLTEXT, status |-> NULLTEXT,
      caller_id |-> NULL, edit |-> <<>>, i |-> 0, order |-> NoRow,
      assignments |-> <<>>, pending_orders |-> <<>>, imported |-> 0,
      skipped |-> 0, total_rows |-> 0, preview_data |-> <<>>,
      outcome |-> NULLTEXT, result |-> NULLTEXT, synced |-> FALSE,
      orders_list |-> <<>>, method |-> NULLTEXT, retries |-> 0,
      attempt |-> 0, token |-> NULLTEXT, response |-> NULLTEXT ]

Init ==
    /\ orders = <<>>
    /\ call_logs = <<>>
    /\ store_assignments = <<>>
    /\ next_order_id = 1
    /\ intents = <<>>
    /\ proc = [p \in Procs |-> Idle]
    /\ settled = FALSE
    /\ workers = 1

\* a request is accepted by an idle worker
Free(p) == p <= workers /\ proc[p].op = "idle"

StillSettled == settled' = (settled /\ orders' = orders
                                    /\ store_assignments' = store_assignments)

Goto(p, label) == proc' = [proc EXCEPT ![p].pc = label]

PreviewLimit == 10

\* a preview that is not cut
preview_uncut(preview_data) == preview_data

\* preview_data[:10], the preview in the answer of upload_carts
preview(preview_data) ==
    SubSeq(preview_data, 1, IF Len(preview_data) < PreviewLimit
                            THEN Len(preview_data) ELSE PreviewLimit)

\* the handler builds its answer and returns
Answer(q, result) ==
    [q EXCEPT !.pc = "done", !.result = result,
              !.preview_data = preview(q.preview_data)]

Finish(p, result) == proc' = [proc EXCEPT ![p] = Answer(proc[p], result)]

(***************************************************************************)
(* Ingestion: fetch_orders (shopify, abandoned_cart) and upload_carts.     *)
(***************************************************************************)
\* the ids a batch can add to the table, for the bound on next_order_id
NewIds(source, batch, dflt) ==
    {n.order_id : n \in {x \in {Normalized(source, batch[k], dflt) :
                                   k \in 1..Len(batch)} : x.id # NULL}}
    \ {r.order_id : r \in Range(orders)}

StartIngest(p) ==
    /\ Free(p)
    /\ \E source \in {"shopify", "abandoned_cart", "csv"} :
       \E batch \in SeqsUpTo(SourceInputs(source), MaxBatch) :
       \E dflt \in DefaultStoreInputs :
          /\ source # "csv" => dflt = ""
          /\ source = "csv" => Len(batch) > 0
          /\ next_order_id - 1
               + Cardinality(NewIds(source, batch, dflt))
               <= MaxOrders
          /\ proc' = [proc EXCEPT ![p] =
                 [Idle EXCEPT !.op = "ingest", !.pc = "fetch",
                              !.source = source, !.batch = batch,
                              !.default_store_id = dflt,
                              !.total_rows = IF source = "csv"
                                             THEN Len(batch) ELSE 0]]
    /\ UNCHANGED <<workers, orders, call_logs, store_assignments, next_order_id,
                   intents, settled>>

(***************************************************************************)
(* upload_carts with a file of many rows.  Row n of a file carries the     *)
(* cart id n written in decimal; MixedFile has a row without cart id, a    *)
(* repeated row and a row without phone.                                   *)
(***************************************************************************)
IdText(n) ==
    IF n < 10 THEN CharAt(Digits, n + 1)
    ELSE CharAt(Digits, (n \div 10) + 1) \o CharAt(Digits, (n % 10) + 1)

UploadRow(n) == [id |-> IdText(n), phone |-> Phone, store |-> ""]

UploadFile(k) == [n \in 1..k |-> UploadRow(n)]

MixedFile ==
    << UploadRow(1), [id |-> "", phone |-> Phone, store |-> ""],
       UploadRow(1), [id |-> "2", phone |-> "", store |-> ""],
       UploadRow(2) >>

UploadFiles ==
    {UploadFile(k) : k \in {1, PreviewLimit, PreviewLimit + 1, MaxUploadRows}}
        \cup {MixedFile}

\* the handler up to rows = list(csv_reader), for a file that has rows
StartUpload(p) ==
    /\ Free(p)
    /\ \E file \in UploadFiles, dflt \in DefaultStoreInputs :
          proc' = [proc EXCEPT ![p] =
              [Idle EXCEPT !.op = "ingest", !.pc = "fetch",
                           !.source = "csv", !.batch = file,
                           !.default_store_id = dflt,
                           !.total_rows = Len(file)]]
    /\ UNCHANGED <<workers, orders, call_logs, store_assignments, next_order_id,
                   intents, settled>>

\* fetch_all_stores(days, exclude_ids) drops the ids already confirmed or
\* cancelled, and raises when a store's request fails;
\* fetch_abandoned_carts returns [] when no endpoint answers, and the
\* handler then returns success without distributing.
Fetch(p) ==
    /\ proc[p].op = "ingest" /\ proc[p].pc = "fetch"
    /\ LET q == proc[p]
           exclude_ids == get_confirmed_cancelled_ids(orders)
           kept == SelectRows(q.batch,
                      {r \in Range(q.batch) : r.id \notin exclude_ids}, 1)
       IN \/ /\ q.source = "shopify"
             /\ proc' = [proc EXCEPT ![p].batch = kept, ![p].i = 1,
                                     ![p].pc = "insert"]
          \/ /\ q.source = "shopify"
             /\ Finish(p, "error")
          \/ /\ q.source = "abandoned_cart"
             /\ IF Len(q.batch) = 0
                THEN Finish(p, "success")
                ELSE proc' = [proc EXCEPT ![p].i = 1, ![p].pc = "insert"]
          \/ /\ q.source = "csv"
             /\ proc' = [proc EXCEPT ![p].i = 1, ![p].pc = "insert"]
    /\ UNCHANGED <<workers, orders, call_logs, store_assignments, next_order_id,
                   intents, settled>>

\* one iteration of the loop over the fetched records: normalize, then
\* db.create_order inside try/except; upload_carts also keeps the records
\* it imported, for the preview of its answer
Insert(p) ==
    /\ proc[p].op = "ingest" /\ proc[p].pc = "insert"
    /\ proc[p].i <= Len(proc[p].batch)
    /\ LET q == proc[p]
           rec == Normalized(q.source, q.batch[q.i], q.default_store_id)
           after == IF rec.id = NULL THEN orders
                    ELSE create_order(orders, next_order_id, rec.order_id,
                                      rec.store_id, rec.order_type,
                                      CustomerName, rec.phone, Address,
                                      Pincode)
       IN /\ orders' = after
          /\ next_order_id' = IF after # orders THEN next_order_id + 1
                              ELSE next_order_id
          /\ proc' = [proc EXCEPT
                 ![p].i = @ + 1,
                 ![p].imported = IF after # orders THEN @ + 1 ELSE @,
                 ![p].skipped = IF after # orders THEN @ ELSE @ + 1,
                 ![p].preview_data =
                     IF after # orders /\ q.source = "csv"
                     THEN Append(@, rec.order_id) ELSE @]
    /\ UNCHANGED <<workers, call_logs, store_assignments, intents>>
    /\ StillSettled

\* the loop is over: distribute_orders() starts by reading the date's
\* assignments and returns when there are none.  The locals of the loop
\* are not read again and are dropped.
DistributeAssignments(p) ==
    /\ proc[p].op = "ingest" /\ proc[p].pc = "insert"
    /\ proc[p].i > Len(proc[p].batch)
    /\ LET assignments == get_assignments_for_date(store_assignments, Today)
           q == [proc[p] EXCEPT !.source = NULLTEXT, !.batch = <<>>,
                                !.default_store_id = "", !.i = 0]
       IN IF Len(assignments) = 0
          THEN /\ proc' = [proc EXCEPT ![p] = Answer(q, "success")]
               /\ settled' = TRUE
          ELSE /\ proc' = [proc EXCEPT ![p] =
                      [q EXCEPT !.assignments = assignments,
                                !.pc = "pending"]]
               /\ UNCHANGED settled
    /\ UNCHANGED <<workers, orders, call_logs, store_assignments, next_order_id,
                   intents>>

\* pending_orders = db.get_orders_by_status('pending')
DistributePending(p) ==
    /\ proc[p].op = "ingest" /\ proc[p].pc = "pending"
    /\ LET pending_orders == get_orders_by_status(orders, "pending")
       IN IF Len(pending_orders) = 0
          THEN Finish(p, "success") /\ settled' = TRUE
          ELSE /\ proc' = [proc EXCEPT ![p].pending_orders = pending_orders,
                                       ![p].i = 1, ![p].pc = "assign"]
               /\ UNCHANGED settled
    /\ UNCHANGED <<workers, orders, call_logs, store_assignments, next_order_id,
                   intents>>

\* one iteration of "for order in pending_orders"; the last one returns
DistributeAssign(p) ==
    /\ proc[p].op = "ingest" /\ proc[p].pc = "assign"
    /\ LET q == proc[p]
           order == q.pending_orders[q.i]
           caller_id == pick_caller(q.assignments, order.store_id)
           last == q.i = Len(q.pending_orders)
       IN /\ orders' = IF caller_id = NULL THEN orders
                       ELSE assign_order(orders, order.order_id, caller_id, now)
          /\ IF last THEN Finish(p, "success")
             ELSE proc' = [proc EXCEPT ![p].i = @ + 1]
          /\ settled' = last
    /\ UNCHANGED <<workers, call_logs, store_assignments, next_order_id, intents>>

(***************************************************************************)
(* api_update_status (recordDisposition).                                  *)
(***************************************************************************)
OrderIdInputs == {"#1", "CART-7"}

StartUpdateStatus(p) ==
    /\ Free(p)
    /\ \E order_id \in OrderIdInputs, status \in StatusInputs,
          caller_id \in DispositionCallerInputs :
          /\ Disposition[status].valid =>
                /\ Len(call_logs) < MaxCalls
                /\ \A k \in 1..Len(orders) : orders[k].attempts < MaxCalls
          /\ proc' = [proc EXCEPT ![p] =
                 [Idle EXCEPT !.op = "update_status", !.pc = "validate",
                              !.order_id = order_id, !.status = status,
                              !.caller_id = caller_id]]
    /\ UNCHANGED <<workers, orders, call_logs, store_assignments,
                   next_order_id, intents, settled>>

\* the membership test on the code, then db.get_order_by_id
Validate(p) ==
    /\ proc[p].op = "update_status" /\ proc[p].pc = "validate"
    /\ LET q == proc[p]
           order == get_order_by_id(orders, q.order_id)
       IN IF ~ Disposition[q.status].valid THEN Finish(p, "invalid_status")
          ELSE IF order = NoRow THEN Finish(p, "not_found")
          ELSE proc' = [proc EXCEPT ![p].order = order, ![p].pc = "increment"]
    /\ UNCHANGED <<workers, orders, call_logs, store_assignments,
                   next_order_id, intents, settled>>

\* the increment as a write of the attempts the handler read, plus one
Increment_from_read(p) ==
    /\ proc[p].op = "update_status" /\ proc[p].pc = "increment"
    /\ orders' = [i \in 1..Len(orders) |->
                     IF orders[i].order_id = proc[p].order_id
                     THEN [orders[i] EXCEPT
                              !.attempts = proc[p].order.attempts + 1]
                     ELSE orders[i]]
    /\ Goto(p, "call_log")
    /\ UNCHANGED <<workers, call_logs, store_assignments, next_order_id,
                   intents>>
    /\ StillSettled

Increment(p) ==
    /\ proc[p].op = "update_status" /\ proc[p].pc = "increment"
    /\ orders' = increment_attempts(orders, proc[p].order_id)
    /\ Goto(p, "call_log")
    /\ UNCHANGED <<workers, call_logs, store_assignments, next_order_id,
                   intents>>
    /\ StillSettled

\* a call log written under the caller the order is assigned to
CallLog_assigned_caller(p) ==
    /\ proc[p].op = "update_status" /\ proc[p].pc = "call_log"
    /\ LET q == proc[p]
       IN call_logs' = create_call_log(call_logs, q.order.id,
                           q.order.assigned_to, q.order.phone, q.status)
    /\ Goto(p, "update")
    /\ UNCHANGED <<workers, orders, store_assignments, next_order_id,
                   intents, settled>>

CallLog(p) ==
    /\ proc[p].op = "update_status" /\ proc[p].pc = "call_log"
    /\ LET q == proc[p]
       IN call_logs' = create_call_log(call_logs, q.order.id, q.caller_id,
                                       q.order.phone, q.status)
    /\ Goto(p, "update")
    /\ UNCHANGED <<workers, orders, store_assignments, next_order_id,
                   intents, settled>>

UpdateStatus(p) ==
    /\ proc[p].op = "update_status" /\ proc[p].pc = "update"
    /\ LET q == proc[p]
       IN orders' = update_order_status(orders, q.order_id,
                        Disposition[q.status].status, q.status, now)
    /\ Goto(p, "sync")
    /\ UNCHANGED <<workers, call_logs, store_assignments, next_order_id,
                   intents>>
    /\ StillSettled

\* add_shopify_tag_async with a sync that raises in it
add_shopify_tag_unguarded(outcome) ==
    IF outcome = "raise" THEN "raised" ELSE "returned"

\* add_shopify_tag_async: everything it does is inside try/except, so it
\* returns whatever the outcome of the store lookup and of the client call
add_shopify_tag_async(outcome) == "returned"

\* whether a client of shopify_manager is found for the order's store
has_client(store_id) ==
    /\ get_store_by_id(store_id) # NoRow
    /\ get_store_by_id(store_id).name \in manager_stores

\* a call of add_shopify_tag_async that raised would leave the handler as an
\* unhandled exception (500); one that returns lets it answer success
SyncTag(p) ==
    /\ proc[p].op = "update_status" /\ proc[p].pc = "sync"
    /\ LET q == proc[p]
           called == has_client(q.order.store_id)
       IN /\ intents' = Append(intents,
                 [order_id |-> q.order_id, store_id |-> q.order.store_id,
                  tag |-> Disposition[q.status].tag,
                  calls |-> IF called THEN 1 ELSE 0])
          /\ \E outcome \in (IF called THEN client_results
                                          ELSE {"no_client"}) :
                proc' = [proc EXCEPT
                    ![p].pc = "done",
                    ![p].result =
                        IF add_shopify_tag_async(outcome) = "raised"
                        THEN "error" ELSE "success",
                    ![p].outcome = outcome]
    /\ UNCHANGED <<workers, orders, call_logs, store_assignments,
                   next_order_id, settled>>

(***************************************************************************)
(* api_edit_order (editOrder) and sync_order_to_shopify.                   *)
(***************************************************************************)
EditInputs ==
    { [customer_name |-> " Asha K", phone |-> "+91 98765-43210",
       address |-> "14 MG Road", pincode |-> "560002-12345"],
      [customer_name |-> "Asha K", phone |-> "123",
       address |-> "14 MG Road", pincode |-> "560002"],
      [customer_name |-> "Asha K", phone |-> "1234567890123456",
       address |-> "14 MG Road", pincode |-> "560002"],
      [customer_name |-> "Asha K", phone |-> "9876543210",
       address |-> "14 MG Road", pincode |-> ""],
      [customer_name |-> " ", phone |-> "123",
       address |-> "14 MG Road", pincode |-> "560002"] }

NameLimit == 200
AddressLimit == 500
PincodeLimit == 10
MinPhoneDigits == 10
MaxPhoneDigits == 15

StartEdit(p) ==
    /\ Free(p)
    /\ Cardinality({k \in 1..Len(orders) : orders[k].edited_at # NULL})
          < MaxEdits
    /\ \E order_id \in OrderIdInputs, edit \in EditInputs :
          proc' = [proc EXCEPT ![p] =
              [Idle EXCEPT !.op = "edit_order", !.pc = "validate",
                           !.order_id = order_id, !.edit = edit]]
    /\ UNCHANGED <<workers, orders, call_logs, store_assignments,
                   next_order_id, intents, settled>>

\* the four values as the handler holds them after strip() and truncation
edited_values(edit) ==
    [ customer_name |-> truncate(strip(edit.customer_name), NameLimit),
      phone |-> strip(edit.phone),
      address |-> truncate(strip(edit.address), AddressLimit),
      pincode |-> truncate(strip(edit.pincode), PincodeLimit) ]

missing_fields(order_id, edit) ==
    \/ order_id = "" \/ order_id = NULLTEXT
    \/ strip(edit.customer_name) = ""
    \/ strip(edit.phone) = ""
    \/ strip(edit.address) = ""

\* a phone check without its upper bound
invalid_phone_short_only(phone) == count_digits(phone) < MinPhoneDigits

invalid_phone(phone) ==
    \/ count_digits(phone) < MinPhoneDigits
    \/ count_digits(phone) > MaxPhoneDigits

\* the validation, tabulated over the inputs
Edited ==
    [edit \in EditInputs |->
        [ missing |-> missing_fields("id", edit),
          invalid_phone |-> invalid_phone(strip(edit.phone)),
          values |-> edited_values(edit) ]]

\* s written n times
RECURSIVE Rep(_, _)
Rep(s, n) ==
    IF n = 0 THEN ""
    ELSE IF n % 2 = 0 THEN LET half == Rep(s, n \div 2) IN half \o half
    ELSE s \o Rep(s, n - 1)

\* requests with texts one character over the limits, at the limits, and
\* over a limit only with the blank in front
LongEditInputs ==
    { [customer_name |-> Rep("a", NameLimit) \o "b", phone |-> "9876543210",
       address |-> "14 MG Road", pincode |-> "560002"],
      [customer_name |-> Rep("a", NameLimit), phone |-> "9876543210",
       address |-> Rep("r", AddressLimit) \o "s",
       pincode |-> "5600021234"],
      [customer_name |-> "Asha K", phone |-> "9876543210",
       address |-> Rep("r", AddressLimit), pincode |-> "56000212345"],
      [customer_name |-> " " \o Rep("a", NameLimit), phone |-> "9876543210",
       address |-> "14 MG Road", pincode |-> "560002"],
      [customer_name |-> Rep("a", NameLimit) \o "b", phone |-> "123",
       address |-> "14 MG Road", pincode |-> "560002"] }

LongEdited ==
    [edit \in LongEditInputs |->
        [ missing |-> missing_fields("id", edit),
          invalid_phone |-> invalid_phone(strip(edit.phone)),
          values |-> edited_values(edit) ]]

EditValidate(p) ==
    /\ proc[p].op = "edit_order" /\ proc[p].pc = "validate"
    /\ LET q == proc[p]
           order == get_order_by_id(orders, q.order_id)
           e == IF q.edit \in EditInputs THEN Edited[q.edit]
                ELSE LongEdited[q.edit]
       IN IF e.missing THEN Finish(p, "missing_fields")
          ELSE IF e.invalid_phone THEN Finish(p, "invalid_phone")
          ELSE IF order = NoRow THEN Finish(p, "not_found")
          ELSE proc' = [proc EXCEPT ![p].order = order,
                                    ![p].edit = e.values,
                                    ![p].pc = "update_edits"]
    /\ UNCHANGED <<workers, orders, call_logs, store_assignments,
                   next_order_id, intents, settled>>

\* an edit handler that goes on to the push without having saved the edit
EditUpdate_unsaved(p) ==
    /\ proc[p].op = "edit_order" /\ proc[p].pc = "update_edits"
    /\ Goto(p, "sync")
    /\ UNCHANGED <<workers, orders, call_logs, store_assignments,
                   next_order_id, intents, settled>>

EditUpdate(p) ==
    /\ proc[p].op = "edit_order" /\ proc[p].pc = "update_edits"
    /\ LET q == proc[p]
       IN orders' = update_order_edits(orders, q.order_id,
                        q.edit.customer_name, q.edit.phone, q.edit.address,
                        q.edit.pincode, now)
    /\ Goto(p, "sync")
    /\ UNCHANGED <<workers, call_logs, store_assignments, next_order_id,
                   intents>>
    /\ StillSettled

\* sync_order_to_shopify up to the client's answer
EditSync(p) ==
    /\ proc[p].op = "edit_order" /\ proc[p].pc = "sync"
    /\ LET q == proc[p]
           called == has_client(q.order.store_id)
       IN \E outcome \in (IF called THEN client_results ELSE {"no_client"}) :
             proc' = [proc EXCEPT
                 ![p].outcome = outcome,
                 ![p].pc = IF outcome = "ok" THEN "mark_synced" ELSE "done",
                 ![p].result = IF outcome = "ok" THEN @ ELSE "success"]
    /\ UNCHANGED <<workers, orders, call_logs, store_assignments,
                   next_order_id, intents, settled>>

EditMarkSynced(p) ==
    /\ proc[p].op = "edit_order" /\ proc[p].pc = "mark_synced"
    /\ orders' = mark_shopify_synced(orders, proc[p].order_id, now)
    /\ proc' = [proc EXCEPT ![p].pc = "done", ![p].result = "success",
                            ![p].synced = TRUE]
    /\ UNCHANGED <<workers, call_logs, store_assignments, next_order_id,
                   intents>>
    /\ StillSettled

(***************************************************************************)
(* Administrative routes: each is one statement in one transaction.        *)
(***************************************************************************)
\* store_assignment (POST) with one assignment in the request: the loop
\* calls db.create_assignment and the handler answers success
StoreAssignment(p) ==
    /\ Free(p)
    /\ \E a \in AssignmentInputs :
          /\ a \in Range(store_assignments)
                \/ Len(store_assignments) < MaxAssignments
          /\ store_assignments' = create_assignment(store_assignments,
                 a.store_id, a.caller_id, a.assigned_date)
          /\ proc' = [proc EXCEPT ![p] =
                 Answer([Idle EXCEPT !.op = "store_assignment",
                                     !.assignments = <<a>>], "success")]
    /\ UNCHANGED <<workers, orders, call_logs, next_order_id, intents>>
    /\ StillSettled

\* UPDATE orders SET assigned_to = ? WHERE assigned_to = ?
reassign_caller(ords, from_caller_id, to_caller_id) ==
    [i \in 1..Len(ords) |->
        IF ords[i].assigned_to = from_caller_id
        THEN [ords[i] EXCEPT !.assigned_to = to_caller_id]
        ELSE ords[i]]

\* UPDATE orders SET assigned_to = ?, status = 'assigned' WHERE 1=1
assign_all_to_caller(ords, caller_id) ==
    [i \in 1..Len(ords) |->
        [ords[i] EXCEPT !.assigned_to = caller_id, !.status = "assigned"]]

ReassignCaller(p) ==
    /\ Free(p)
    /\ \E from_caller_id \in CallerInputs, to_caller_id \in CallerInputs :
          orders' = reassign_caller(orders, from_caller_id, to_caller_id)
    /\ UNCHANGED <<workers, call_logs, store_assignments, next_order_id,
                   intents, proc>>
    /\ StillSettled

AssignAllToCaller(p) ==
    /\ Free(p)
    /\ \E caller_id \in CallerInputs :
          orders' = assign_all_to_caller(orders, caller_id)
    /\ UNCHANGED <<workers, call_logs, store_assignments, next_order_id,
                   intents, proc>>
    /\ StillSettled

\* delete-all-orders on a schema whose call logs are deleted with their order
DeleteAllOrders_cascade(p) ==
    /\ Free(p)
    /\ orders' = <<>>
    /\ call_logs' = <<>>
    /\ UNCHANGED <<workers, store_assignments, next_order_id, intents, proc>>
    /\ StillSettled

\* DELETE FROM orders
DeleteAllOrders(p) ==
    /\ Free(p)
    /\ orders' = <<>>
    /\ UNCHANGED <<workers, call_logs, store_assignments, next_order_id,
                   intents, proc>>
    /\ StillSettled

(***************************************************************************)
(* api_get_queue: the caller's queue as the Android app receives it.       *)
(***************************************************************************)
\* the fields of a queue entry that identify the order and its calls
queue_entry(order) ==
    [id |-> order.id, order_id |-> order.order_id, attempts |-> order.attempts]

api_get_queue(p) ==
    /\ Free(p)
    /\ \E caller_id \in CallerInputs :
          LET rows == get_orders_for_caller(orders, caller_id)
          IN  proc' = [proc EXCEPT ![p] =
                  Answer([Idle EXCEPT
                             !.op = "get_queue", !.caller_id = caller_id,
                             !.orders_list =
                                 [i \in 1..Len(rows) |-> queue_entry(rows[i])]],
                         "success")]
    /\ UNCHANGED <<workers, orders, call_logs, store_assignments,
                   next_order_id, intents, settled>>

(***************************************************************************)
(* The environment: a response is delivered, a worker dies between two     *)
(* steps of its handler (or a statement raises).                           *)
(***************************************************************************)
Return(p) ==
    /\ proc[p].pc = "done"
    /\ proc' = [proc EXCEPT ![p] = Idle]
    /\ UNCHANGED <<workers, orders, call_logs, store_assignments,
                   next_order_id, intents, settled>>

Crash(p) ==
    /\ proc[p].op # "idle" /\ proc[p].pc # "done"
    /\ proc' = [proc EXCEPT ![p] = Idle]
    /\ UNCHANGED <<workers, orders, call_logs, store_assignments,
                   next_order_id, intents, settled>>

(***************************************************************************)
(* ShiprocketAPI._request: the retry loop around one HTTP request.  The    *)
(* token of the client is absent, valid or expired when the call starts;   *)
(* the service answers each request and each login as it likes.            *)
(***************************************************************************)
DefaultRetries == 3

RetriesInputs == 0..DefaultRetries

MethodInputs == {"GET", "POST", "PUT"}

TokenInputs == {NULLTEXT, "valid", "expired"}

\* status codes of the service, "200-text" for a 200 whose body is not
\* JSON (response.json() raises), "exception" for a request that raises
ResponseInputs == {"200", "200-text", "401", "429", "500", "exception"}

StartRequest(p) ==
    /\ Free(p)
    /\ \E method \in MethodInputs, retries \in RetriesInputs,
          token \in TokenInputs :
          proc' = [proc EXCEPT ![p] =
              [Idle EXCEPT !.op = "request", !.pc = "for",
                           !.method = method, !.retries = retries,
                           !.token = token]]
    /\ UNCHANGED <<workers, orders, call_logs, store_assignments,
                   next_order_id, intents, settled>>

\* a loop that goes round once more than retries
RequestFor_once_more(p) ==
    /\ proc[p].op = "request" /\ proc[p].pc = "for"
    /\ IF proc[p].attempt <= proc[p].retries
       THEN proc' = [proc EXCEPT ![p].attempt = @ + 1,
                                 ![p].response = NULLTEXT,
                                 ![p].pc = "get_headers"]
       ELSE Finish(p, "None")
    /\ UNCHANGED <<workers, orders, call_logs, store_assignments,
                   next_order_id, intents, settled>>

\* for attempt in range(retries): the next iteration, or the return None
\* after the loop; attempt counts the iterations entered
RequestFor(p) ==
    /\ proc[p].op = "request" /\ proc[p].pc = "for"
    /\ IF proc[p].attempt < proc[p].retries
       THEN proc' = [proc EXCEPT ![p].attempt = @ + 1,
                                 ![p].response = NULLTEXT,
                                 ![p].pc = "get_headers"]
       ELSE Finish(p, "None")
    /\ UNCHANGED <<workers, orders, call_logs, store_assignments,
                   next_order_id, intents, settled>>

\* authenticate(): the token is set on a 200, anything else raises
authenticate(p, ok, label) ==
    IF ok THEN proc' = [proc EXCEPT ![p].token = "valid", ![p].pc = label]
    ELSE proc' = [proc EXCEPT ![p].pc = "except"]

\* _get_headers(), which logs in first without a token or with an expired
\* one, then the test of the method
RequestGetHeaders(p) ==
    /\ proc[p].op = "request" /\ proc[p].pc = "get_headers"
    /\ LET label == IF proc[p].method \in {"GET", "POST"} THEN "send"
                    ELSE "except"
       IN IF proc[p].token # "valid"
          THEN \E ok \in BOOLEAN : authenticate(p, ok, label)
          ELSE Goto(p, label)
    /\ UNCHANGED <<workers, orders, call_logs, store_assignments,
                   next_order_id, intents, settled>>

\* requests.get / requests.post and the branches on response.status_code
RequestSend(p) ==
    /\ proc[p].op = "request" /\ proc[p].pc = "send"
    /\ \E response \in ResponseInputs :
          proc' = [proc EXCEPT ![p] =
              LET q == [proc[p] EXCEPT !.response = response]
              IN  CASE response = "200" -> Answer(q, "json")
                    [] response = "401" ->
                          [q EXCEPT !.token = NULLTEXT, !.pc = "authenticate"]
                    [] response = "429" -> [q EXCEPT !.pc = "for"]
                    [] response \in {"200-text", "exception"} ->
                          [q EXCEPT !.pc = "except"]
                    [] OTHER -> Answer(q, "None")]
    /\ UNCHANGED <<workers, orders, call_logs, store_assignments,
                   next_order_id, intents, settled>>

\* the 401 branch: self.authenticate(), then continue
RequestAuthenticate(p) ==
    /\ proc[p].op = "request" /\ proc[p].pc = "authenticate"
    /\ \E ok \in BOOLEAN : authenticate(p, ok, "for")
    /\ UNCHANGED <<workers, orders, call_logs, store_assignments,
                   next_order_id, intents, settled>>

\* except Exception: sleep and continue before the last attempt, return
\* None in the last
RequestExcept(p) ==
    /\ proc[p].op = "request" /\ proc[p].pc = "except"
    /\ IF proc[p].attempt - 1 < proc[p].retries - 1
       THEN Goto(p, "for")
       ELSE Finish(p, "None")
    /\ UNCHANGED <<workers, orders, call_logs, store_assignments,
                   next_order_id, intents, settled>>

NextRequest ==
    \E p \in Procs :
        \/ StartRequest(p) \/ RequestFor(p) \/ RequestGetHeaders(p)
        \/ RequestSend(p) \/ RequestAuthenticate(p) \/ RequestExcept(p)
        \/ Return(p)

\* a call that was started runs on: the interpreter executes the loop
SpecRequest == Init /\ [][NextRequest]_vars /\ WF_vars(NextRequest)

(***************************************************************************)
(* The program from its first start, without the disposition handler:      *)
(* ingestion, distribution, the edit handler and the administrative routes.*)
(***************************************************************************)
Next ==
    \E p \in Procs :
        \/ StartIngest(p) \/ Fetch(p) \/ Insert(p)
        \/ DistributeAssignments(p) \/ DistributePending(p)
        \/ DistributeAssign(p)
        \/ StartEdit(p) \/ EditValidate(p) \/ EditUpdate(p)
        \/ EditSync(p) \/ EditMarkSynced(p)
        \/ StoreAssignment(p) \/ ReassignCaller(p)
        \/ AssignAllToCaller(p) \/ DeleteAllOrders(p)
        \/ Return(p) \/ Crash(p)

Spec == Init /\ [][Next]_vars

(***************************************************************************)
(* The program with the disposition handler, from the state it is in after *)
(* one Shopify order was fetched and store 1 was then assigned to caller 2 *)
(* for today, which is a state Spec reaches.                               *)
(***************************************************************************)
InitCalls ==
    /\ orders = << OrderRow(1, "#1", 1, "cod", CustomerName, Phone, Address,
                            Pincode) >>
    /\ call_logs = <<>>
    /\ store_assignments =
          << [store_id |-> 1, caller_id |-> 2, assigned_date |-> Today] >>
    /\ next_order_id = 2
    /\ intents = <<>>
    /\ proc = [p \in Procs |-> Idle]
    /\ settled = FALSE
    /\ workers = 1

NextCalls ==
    \E p \in Procs :
        \/ StartIngest(p) \/ Fetch(p) \/ Insert(p)
        \/ DistributeAssignments(p) \/ DistributePending(p)
        \/ DistributeAssign(p)
        \/ StartUpdateStatus(p) \/ Validate(p) \/ Increment(p)
        \/ CallLog(p) \/ UpdateStatus(p) \/ SyncTag(p)
        \/ AssignAllToCaller(p)
        \/ Return(p) \/ Crash(p)

SpecCalls == InitCalls /\ [][NextCalls]_vars

(***************************************************************************)
(* The ingestion handlers and the assignment route on a server that runs   *)
(* two requests at the same time (app.run serves each request in a thread  *)
(* of its own), from the first start.                                      *)
(***************************************************************************)
InitRace ==
    /\ orders = <<>>
    /\ call_logs = <<>>
    /\ store_assignments = <<>>
    /\ next_order_id = 1
    /\ intents = <<>>
    /\ proc = [p \in Procs |-> Idle]
    /\ settled = FALSE
    /\ workers = 2

NextRace ==
    \E p \in Procs :
        \/ StartIngest(p) \/ Fetch(p) \/ Insert(p)
        \/ DistributeAssignments(p) \/ DistributePending(p)
        \/ DistributeAssign(p)
        \/ StoreAssignment(p)
        \/ Return(p)

SpecRace == InitRace /\ [][NextRace]_vars

(***************************************************************************)
(* The two bulk-import sources on two workers: cart fetches and CSV        *)
(* uploads may overlap, on tables that hold one assignment for today.      *)
(***************************************************************************)
InitCarts ==
    /\ orders = <<>>
    /\ call_logs = <<>>
    /\ store_assignments =
          << [store_id |-> 1, caller_id |-> 2, assigned_date |-> Today] >>
    /\ next_order_id = 1
    /\ intents = <<>>
    /\ proc = [p \in Procs |-> Idle]
    /\ settled = FALSE
    /\ workers = 2

StartCartIngest(p) ==
    /\ Free(p)
    /\ \E source \in {"abandoned_cart", "csv"} :
       \E batch \in SeqsUpTo(SourceInputs(source), MaxBatch) :
       \E dflt \in DefaultStoreInputs :
          /\ source # "csv" => dflt = ""
          /\ source = "csv" => Len(batch) > 0
          /\ next_order_id - 1
               + Cardinality(NewIds(source, batch, dflt))
               <= MaxOrders
          /\ proc' = [proc EXCEPT ![p] =
                 [Idle EXCEPT !.op = "ingest", !.pc = "fetch",
                              !.source = source, !.batch = batch,
                              !.default_store_id = dflt,
                              !.total_rows = IF source = "csv"
                                             THEN Len(batch) ELSE 0]]
    /\ UNCHANGED <<workers, orders, call_logs, store_assignments, next_order_id,
                   intents, settled>>

NextCarts ==
    \E p \in Procs :
        \/ StartCartIngest(p) \/ Fetch(p) \/ Insert(p)
        \/ DistributeAssignments(p) \/ DistributePending(p)
        \/ DistributeAssign(p)
        \/ Return(p)

SpecCarts == InitCarts /\ [][NextCarts]_vars

(***************************************************************************)
(* upload_carts alone, one request at a time, on empty tables but for the  *)
(* assignment of store 1 to caller 2 for today.                            *)
(***************************************************************************)
InitUpload ==
    /\ orders = <<>>
    /\ call_logs = <<>>
    /\ store_assignments =
          << [store_id |-> 1, caller_id |-> 2, assigned_date |-> Today] >>
    /\ next_order_id = 1
    /\ intents = <<>>
    /\ proc = [p \in Procs |-> Idle]
    /\ settled = FALSE
    /\ workers = 1

NextUpload ==
    \E p \in Procs :
        \/ StartUpload(p) \/ Fetch(p) \/ Insert(p)
        \/ DistributeAssignments(p) \/ DistributePending(p)
        \/ DistributeAssign(p)
        \/ Return(p)

SpecUpload == InitUpload /\ [][NextUpload]_vars

(***************************************************************************)
(* upload_carts with one-row files whose store column and default store    *)
(* vary, one request at a time, from the state of InitUpload.              *)
(***************************************************************************)
LabelInputs ==
    { "", "Unknown", "mummamitra.com", "MUMMAMITRA app",
      "paaltubazaar x mummamitra", "Indian  Goods Hub" }

LabelDefaultInputs == {"", "2", "3", "9"}

LabelIdInputs == {"7", "8"}

StartLabelUpload(p) ==
    /\ Free(p)
    /\ \E id \in LabelIdInputs, label \in LabelInputs,
          dflt \in LabelDefaultInputs :
          proc' = [proc EXCEPT ![p] =
              [Idle EXCEPT !.op = "ingest", !.pc = "fetch",
                           !.source = "csv",
                           !.batch = << [id |-> id, phone |-> Phone,
                                         store |-> label] >>,
                           !.default_store_id = dflt,
                           !.total_rows = 1]]
    /\ UNCHANGED <<workers, orders, call_logs, store_assignments, next_order_id,
                   intents, settled>>

NextLabels ==
    \E p \in Procs :
        \/ StartLabelUpload(p) \/ Fetch(p) \/ Insert(p)
        \/ DistributeAssignments(p) \/ DistributePending(p)
        \/ DistributeAssign(p)
        \/ Return(p)

SpecLabels == InitUpload /\ [][NextLabels]_vars

(***************************************************************************)
(* Ingestion, distribution, the disposition handler and the administrative *)
(* routes that rewrite or delete orders, one request at a time, from the   *)
(* state of InitCalls.                                                     *)
(***************************************************************************)
NextLog ==
    \E p \in Procs :
        \/ StartIngest(p) \/ Fetch(p) \/ Insert(p)
        \/ DistributeAssignments(p) \/ DistributePending(p)
        \/ DistributeAssign(p)
        \/ StartUpdateStatus(p) \/ Validate(p) \/ Increment(p)
        \/ CallLog(p) \/ UpdateStatus(p) \/ SyncTag(p)
        \/ ReassignCaller(p) \/ AssignAllToCaller(p)
        \/ DeleteAllOrders(p)
        \/ Return(p) \/ Crash(p)

SpecLog == InitCalls /\ [][NextLog]_vars

(***************************************************************************)
(* The disposition handler on a server that runs two requests at the same  *)
(* time, from the state in which order "#1" of store 1 has been            *)
(* distributed to caller 2; no worker dies.                                *)
(***************************************************************************)
InitDispositions ==
    /\ orders = assign_order(
                    << OrderRow(1, "#1", 1, "cod", CustomerName, Phone,
                                Address, Pincode) >>, "#1", 2, now)
    /\ call_logs = <<>>
    /\ store_assignments =
          << [store_id |-> 1, caller_id |-> 2, assigned_date |-> Today] >>
    /\ next_order_id = 2
    /\ intents = <<>>
    /\ proc = [p \in Procs |-> Idle]
    /\ settled = TRUE
    /\ workers = 2

NextDispositions ==
    \E p \in Procs :
        \/ StartUpdateStatus(p) \/ Validate(p) \/ Increment(p)
        \/ CallLog(p) \/ UpdateStatus(p) \/ SyncTag(p)
        \/ Return(p)

SpecDispositions == InitDispositions /\ [][NextDispositions]_vars

(***************************************************************************)
(* The disposition handler and the edit handler, one request at a time,    *)
(* from the state of InitCalls.                                            *)
(***************************************************************************)
NextSync ==
    \E p \in Procs :
        \/ StartUpdateStatus(p) \/ Validate(p) \/ Increment(p)
        \/ CallLog(p) \/ UpdateStatus(p) \/ SyncTag(p)
        \/ StartEdit(p) \/ EditValidate(p) \/ EditUpdate(p)
        \/ EditSync(p) \/ EditMarkSynced(p)
        \/ Return(p) \/ Crash(p)

SpecSync == InitCalls /\ [][NextSync]_vars

(***************************************************************************)
(* The edit handler with the requests of EditInputs and of LongEditInputs  *)
(* and the disposition handler, one request at a time, from the state of   *)
(* InitCalls.                                                              *)
(***************************************************************************)
StartLongEdit(p) ==
    /\ Free(p)
    /\ Cardinality({k \in 1..Len(orders) : orders[k].edited_at # NULL})
          < MaxEdits
    /\ \E order_id \in OrderIdInputs, edit \in LongEditInputs :
          proc' = [proc EXCEPT ![p] =
              [Idle EXCEPT !.op = "edit_order", !.pc = "validate",
                           !.order_id = order_id, !.edit = edit]]
    /\ UNCHANGED <<workers, orders, call_logs, store_assignments,
                   next_order_id, intents, settled>>

NextEdits ==
    \E p \in Procs :
        \/ StartUpdateStatus(p) \/ Validate(p) \/ Increment(p)
        \/ CallLog(p) \/ UpdateStatus(p) \/ SyncTag(p)
        \/ StartEdit(p) \/ StartLongEdit(p)
        \/ EditValidate(p) \/ EditUpdate(p)
        \/ EditSync(p) \/ EditMarkSynced(p)
        \/ Return(p) \/ Crash(p)

SpecEdits == InitCalls /\ [][NextEdits]_vars

(***************************************************************************)
(* distribute_orders under assignment tables in which several callers      *)
(* share stores: the table is any list of up to MaxPlannerRows different    *)
(* rows of PlannerRows, order "#1" of store 1 is pending, and ingestion     *)
(* requests follow one at a time.                                           *)
(***************************************************************************)
MaxPlannerRows == 3

PlannerRows ==
    { [store_id |-> s, caller_id |-> c, assigned_date |-> Today] :
          s \in {1, 2}, c \in CallerInputs }
       \cup { [store_id |-> 1, caller_id |-> 2, assigned_date |-> Yesterday] }

PlannerTables ==
    { t \in SeqsUpTo(PlannerRows, MaxPlannerRows) :
          \A i, j \in 1..Len(t) : t[i] = t[j] => i = j }

InitPlanner ==
    /\ orders = << OrderRow(1, "#1", 1, "cod", CustomerName, Phone, Address,
                            Pincode) >>
    /\ call_logs = <<>>
    /\ store_assignments \in PlannerTables
    /\ next_order_id = 2
    /\ intents = <<>>
    /\ proc = [p \in Procs |-> Idle]
    /\ settled = FALSE
    /\ workers = 1

NextPlanner ==
    \E p \in Procs :
        \/ StartIngest(p) \/ Fetch(p) \/ Insert(p)
        \/ DistributeAssignments(p) \/ DistributePending(p)
        \/ DistributeAssign(p)
        \/ Return(p)

SpecPlanner == InitPlanner /\ [][NextPlanner]_vars

(***************************************************************************)
(* Ingestion, distribution, the disposition handler, the routes that move  *)
(* orders between callers and the queue read, one request at a time, from  *)
(* the state of InitCalls.                                                 *)
(***************************************************************************)
NextQueue ==
    \E p \in Procs :
        \/ StartIngest(p) \/ Fetch(p) \/ Insert(p)
        \/ DistributeAssignments(p) \/ DistributePending(p)
        \/ DistributeAssign(p)
        \/ StartUpdateStatus(p) \/ Validate(p) \/ Increment(p)
        \/ CallLog(p) \/ UpdateStatus(p) \/ SyncTag(p)
        \/ ReassignCaller(p) \/ AssignAllToCaller(p)
        \/ api_get_queue(p)
        \/ Return(p) \/ Crash(p)

SpecQueue == InitCalls /\ [][NextQueue]_vars

(***************************************************************************)
(* Properties.  A request in flight is recognised by its worker's record;  *)
(* with one worker every step taken while a request is in flight is a step *)
(* of that request.                                                        *)
(***************************************************************************)
HasRow(order_id) == \E k \in 1..Len(orders) : orders[k].order_id = order_id

LogsOf(order_internal_id) ==
    {j \in 1..Len(call_logs) : call_logs[j].order_id = order_internal_id}

\* the codes of StatusInputs that are in the accepted list when lowered
AcceptedCodes ==
    [status \in StatusInputs |->
        \E k \in 1..Len(valid_statuses) : valid_statuses[k] = lower(status)]

Accepted(status) == AcceptedCodes[status]

\* the step of Insert by worker p
InsertStep(p) ==
    /\ proc[p].op = "ingest" /\ proc[p].pc = "insert"
    /\ proc'[p].pc = "insert" /\ proc'[p].i = proc[p].i + 1

OrderIdsUnique ==
    \A i, j \in 1..Len(orders) :
        orders[i].order_id = orders[j].order_id => i = j

InsertKeepsRows ==
    \A p \in Procs : InsertStep(p) =>
        LET q == proc[p]
            rec == Normalized(q.source, q.batch[q.i], q.default_store_id)
        IN /\ Len(orders') >= Len(orders)
           /\ SubSeq(orders', 1, Len(orders)) = orders
           /\ (rec.id # NULL /\ HasRow(rec.order_id)) => orders' = orders

C2_TerminalIsFinal ==
    [][\A k \in 1..Len(orders) :
          (orders[k].status \in {"confirmed", "cancelled"}
              /\ k <= Len(orders')) =>
             /\ orders'[k].status = orders[k].status
             /\ orders'[k].final_status = orders[k].final_status]_vars

\* the status the spec gives a code, by the words the lowered code contains
ClassifiedCodes ==
    [status \in StatusInputs |->
        IF contains(lower(status), "confirm") THEN "confirmed"
        ELSE IF contains(lower(status), "cancel") THEN "cancelled"
        ELSE "assigned"]

Classified(status) == ClassifiedCodes[status]

\* C3: when api_update_status has answered success for an accepted code,
\* the order's status is confirmed if the lowered code contains "confirm",
\* else cancelled if it contains "cancel", else assigned, and its
\* final_status is the code as it was submitted.
C3_Classification ==
    \A p \in Procs :
        (proc[p].op = "update_status" /\ proc[p].pc = "done"
            /\ proc[p].result = "success") =>
           /\ Accepted(proc[p].status)
           /\ \E k \in 1..Len(orders) :
                 /\ orders[k].order_id = proc[p].order_id
                 /\ orders[k].status = Classified(proc[p].status)
                 /\ orders[k].status \in {"confirmed", "cancelled", "assigned"}
                 /\ orders[k].final_status = proc[p].status

\* C3 witness: "cancel on text" has been recorded for an order that was
\* confirmed by an earlier call.
C3_Witness ==
    \E p \in Procs :
        /\ proc[p].op = "update_status" /\ proc[p].pc = "done"
        /\ proc[p].result = "success" /\ proc[p].status = "cancel on text"
        /\ proc[p].order.status = "confirmed"
        /\ \E k \in 1..Len(orders) :
              /\ orders[k].order_id = proc[p].order_id
              /\ orders[k].status = "cancelled"

\* the step of Increment by worker p
IncrementStep(p) ==
    /\ proc[p].op = "update_status" /\ proc[p].pc = "increment"
    /\ proc'[p].pc = "call_log"

AttemptsStep ==
    /\ Len(orders') >= Len(orders)
    /\ \A k \in 1..Len(orders) :
          /\ orders'[k].attempts >= orders[k].attempts
          /\ orders'[k].attempts # orders[k].attempts =>
                \E p \in Procs : /\ IncrementStep(p)
                                 /\ orders[k].order_id = proc[p].order_id
    /\ \A p \in Procs : IncrementStep(p) =>
          \A k \in 1..Len(orders) :
              orders'[k].attempts =
                 IF orders[k].order_id = proc[p].order_id
                 THEN orders[k].attempts + 1 ELSE orders[k].attempts

AttemptsOnAnswer ==
    \A p \in Procs :
        (proc[p].op = "update_status" /\ proc[p].pc = "done") =>
           \/ /\ proc[p].result = "success"
              /\ proc[p].outcome \in client_results \cup {"no_client"}
              /\ \E k \in 1..Len(orders) :
                    /\ orders[k].order_id = proc[p].order_id
                    /\ orders[k].attempts = proc[p].order.attempts + 1
           \/ /\ proc[p].result \in {"invalid_status", "not_found"}
              /\ proc[p].order = NoRow

C5_AttemptsMatchLogs ==
    (\A p \in Procs : proc[p].op = "idle") =>
        \A k \in 1..Len(orders) :
            orders[k].attempts = Cardinality(LogsOf(orders[k].id))

\* C6: every step of a disposition request whose code is not accepted
\* leaves orders, call_logs and the sync intents as they were, and the
\* request can only end, with the answer invalid_status.
C6_InvalidCodeRejected ==
    [][\A p \in Procs :
          (proc[p].op = "update_status" /\ ~ Accepted(proc[p].status)) =>
             /\ UNCHANGED <<orders, call_logs, intents>>
             /\ \/ proc'[p].op = "idle"
                \/ /\ proc'[p].pc = "done"
                   /\ proc'[p].result = "invalid_status"]_vars

\* C6 witness: "Bogus Code" has been rejected for an order that exists and
\* has been called before.
C6_Witness ==
    \E p \in Procs :
        /\ proc[p].op = "update_status" /\ proc[p].pc = "done"
        /\ proc[p].status = "Bogus Code"
        /\ proc[p].result = "invalid_status"
        /\ \E k \in 1..Len(orders) :
              /\ orders[k].order_id = proc[p].order_id
              /\ orders[k].attempts = 1
        /\ Len(call_logs) = 1

\* C7: every step of a disposition request with an accepted code for an
\* order id that has no row leaves orders, call_logs and the sync intents
\* as they were, and the request can only end, with the answer not_found.
C7_UnknownOrderRejected ==
    [][\A p \in Procs :
          (proc[p].op = "update_status" /\ Accepted(proc[p].status)
              /\ ~ HasRow(proc[p].order_id)) =>
             /\ UNCHANGED <<orders, call_logs, intents>>
             /\ \/ proc'[p].op = "idle"
                \/ /\ proc'[p].pc = "done"
                   /\ proc'[p].result = "not_found"]_vars

\* C7 witness: "Line Busy" for CART-7 has been answered not_found while
\* the table holds another order.
C7_Witness ==
    \E p \in Procs :
        /\ proc[p].op = "update_status" /\ proc[p].pc = "done"
        /\ proc[p].status = "Line Busy" /\ proc[p].order_id = "CART-7"
        /\ proc[p].result = "not_found"
        /\ Len(orders) = 1 /\ ~ HasRow("CART-7")

\* C8: when the sync of an accepted disposition has failed (the client
\* raised, answered non-success, or no client was found), the request has
\* answered success and the increment, the call log row, the status
\* transition and the intent are in the tables.
C8_SyncFailureContained ==
    \A p \in Procs :
        (proc[p].op = "update_status" /\ proc[p].pc = "done"
            /\ proc[p].outcome \in {"fail", "raise", "no_client"}) =>
           /\ proc[p].result = "success"
           /\ \E k \in 1..Len(orders) :
                 /\ orders[k].order_id = proc[p].order_id
                 /\ orders[k].attempts = proc[p].order.attempts + 1
                 /\ orders[k].status = Classified(proc[p].status)
                 /\ orders[k].final_status = proc[p].status
           /\ Len(call_logs) > 0
           /\ call_logs[Len(call_logs)].order_id = proc[p].order.id
           /\ call_logs[Len(call_logs)].status = proc[p].status
           /\ Len(intents) > 0
           /\ intents[Len(intents)].order_id = proc[p].order_id

\* C8 witness: the client raised during the sync of "Confirm on Call".
C8_Witness ==
    \E p \in Procs :
        /\ proc[p].op = "update_status" /\ proc[p].pc = "done"
        /\ proc[p].outcome = "raise" /\ proc[p].status = "Confirm on Call"
        /\ \E k \in 1..Len(orders) :
              /\ orders[k].order_id = proc[p].order_id
              /\ orders[k].status = "confirmed"

AssignedToday(store_id) ==
    {a.caller_id : a \in {x \in Range(store_assignments) :
                             /\ x.assigned_date = Today
                             /\ x.store_id = store_id}}

\* C9: when distribute_orders has completed and no table has changed
\* since, no pending order's store has an assignment for today; and at the
\* end of a run, every order it found pending is assigned, with assigned_at
\* set, to a caller assigned to its store for today if there is one, and is
\* otherwise as it was found: pending and unassigned.
C9_DistributePostcondition ==
    /\ settled =>
          \A k \in 1..Len(orders) :
              orders[k].status = "pending" =>
                  AssignedToday(orders[k].store_id) = {}
    /\ \A p \in Procs :
          (proc[p].op = "ingest" /\ proc[p].pc = "done") =>
             \A n \in 1..Len(proc[p].pending_orders) :
                LET found == proc[p].pending_orders[n]
                    callers == AssignedToday(found.store_id)
                IN \E k \in 1..Len(orders) :
                      /\ orders[k].order_id = found.order_id
                      /\ IF callers # {}
                         THEN /\ orders[k].status = "assigned"
                              /\ orders[k].assigned_to \in callers
                              /\ orders[k].assigned_at # NULL
                         ELSE /\ orders[k] = found
                              /\ orders[k].status = "pending"
                              /\ orders[k].assigned_to = NULL

\* C9 witness: a run that found two pending orders has ended with the one
\* of store 1 assigned and the one of store 2 still pending.
C9_Witness ==
    \E p \in Procs :
        /\ proc[p].op = "ingest" /\ proc[p].pc = "done"
        /\ Len(proc[p].pending_orders) = 2
        /\ settled
        /\ \E k \in 1..Len(orders) :
              /\ orders[k].status = "assigned" /\ orders[k].store_id = 1
              /\ orders[k].assigned_at # NULL
        /\ \E k \in 1..Len(orders) :
              /\ orders[k].status = "pending" /\ orders[k].store_id = 2

\* a step of distribute_orders by worker p
DistributeStep(p) ==
    /\ proc[p].op = "ingest"
    /\ \/ proc[p].pc \in {"pending", "assign"}
       \/ proc[p].pc = "insert" /\ proc[p].i > Len(proc[p].batch)

AssignOrderStep(p) ==
    /\ proc[p].op = "ingest" /\ proc[p].pc = "assign"
    /\ proc'[p].op = "ingest" /\ proc'[p] # proc[p]
    /\ pick_caller(proc[p].assignments,
                   proc[p].pending_orders[proc[p].i].store_id) # NULL

\* C11 (as the spec states it): a run of distribute_orders calls
\* db.assign_order, which writes status, assigned_to and assigned_at, only
\* on an order that is pending at that moment; once an order has left
\* pending no run writes it.
C11_NoStaleAssign ==
    [][\A p \in Procs : AssignOrderStep(p) =>
          \A k \in 1..Len(orders) :
              orders[k].order_id = proc[p].pending_orders[proc[p].i].order_id
                 => orders[k].status = "pending"]_vars

\* the status changes the lifecycle allows
AllowedTransitions ==
    { <<"pending", "assigned">>, <<"assigned", "confirmed">>,
      <<"assigned", "cancelled">>, <<"assigned", "assigned">> }

\* C12 (as the spec states it): every step that changes the status of a row
\* takes it along pending -> assigned, assigned -> confirmed or assigned ->
\* cancelled; no row goes from pending to confirmed or cancelled in one
\* step, and none returns to pending.
C12_AllowedTransitions ==
    [][\A k \in 1..Len(orders) :
          (k <= Len(orders') /\ orders'[k].status # orders[k].status) =>
             <<orders[k].status, orders'[k].status>> \in AllowedTransitions]_vars

\* the step of UpdateStatus by worker p
UpdateStatusStep(p) ==
    /\ proc[p].op = "update_status" /\ proc[p].pc = "update"
    /\ proc'[p].pc = "sync"

\* C13 (as the spec states it): the status update of an accepted code that
\* is neither a confirmation nor a cancellation sets the order's status to
\* assigned and its final_status to the code and leaves completed_at as it
\* was; a row's completed_at changes only in the status update of a
\* disposition for that order whose resulting status is confirmed or
\* cancelled.
C13_RetryLeavesCompletedAt ==
    [][/\ \A p \in Procs :
             (UpdateStatusStep(p) /\ Classified(proc[p].status) = "assigned") =>
                \A k \in 1..Len(orders) :
                    orders[k].order_id = proc[p].order_id =>
                       /\ orders'[k].status = "assigned"
                       /\ orders'[k].final_status = proc[p].status
                       /\ orders'[k].completed_at = orders[k].completed_at
       /\ \A k \in 1..Len(orders) :
             (k <= Len(orders')
                 /\ orders'[k].completed_at # orders[k].completed_at) =>
                \E p \in Procs :
                    /\ UpdateStatusStep(p)
                    /\ proc[p].order_id = orders[k].order_id
                    /\ Classified(proc[p].status)
                          \in {"confirmed", "cancelled"}]_vars

\* the tag that mirrors a resulting status
TagOf(status) ==
    CASE status = "confirmed" -> "COD-Confirmed"
      [] status = "cancelled" -> "COD-Cancelled"
      [] OTHER -> "COD-Retry"

\* the step in which worker p answers a disposition request
AnswerStep(p) ==
    /\ proc[p].op = "update_status" /\ proc[p].pc # "done"
    /\ proc'[p].pc = "done"

\* C14: the list of sync intents changes only in the step in which an
\* accepted disposition is answered with success, and in that step exactly
\* one intent is appended, with the order's external id, the store id of its
\* row and the tag that mirrors the resulting status, for which the store
\* client has been called at most once; a request answered invalid_status
\* or not_found has appended none in any of its steps.
C14_OneIntentPerDisposition ==
    [][/\ intents' # intents =>
             \E p \in Procs :
                /\ AnswerStep(p) /\ proc'[p].result = "success"
                /\ Accepted(proc[p].status)
                /\ Len(intents') = Len(intents) + 1
                /\ SubSeq(intents', 1, Len(intents)) = intents
                /\ LET intent == intents'[Len(intents')]
                   IN /\ intent.order_id = proc[p].order_id
                      /\ \E k \in 1..Len(orders) :
                            /\ orders[k].order_id = proc[p].order_id
                            /\ orders[k].store_id = intent.store_id
                      /\ intent.tag = TagOf(Classified(proc[p].status))
                      /\ intent.calls \in {0, 1}
       /\ \A p \in Procs : AnswerStep(p) =>
             IF proc'[p].result = "success"
             THEN Len(intents') = Len(intents) + 1
             ELSE /\ proc'[p].result \in {"invalid_status", "not_found"}
                  /\ intents' = intents]_vars

\* C14 witness: two accepted dispositions have been answered, the first
\* tagged COD-Confirmed and the second COD-Retry, each with one client call.
C14_Witness ==
    \E p \in Procs :
        /\ proc[p].op = "update_status" /\ proc[p].pc = "done"
        /\ proc[p].result = "success" /\ proc[p].status = "Line Busy"
        /\ Len(intents) = 2
        /\ intents[1].tag = "COD-Confirmed" /\ intents[1].calls = 1
        /\ intents[2].tag = "COD-Retry" /\ intents[2].calls = 1
        /\ intents[2].order_id = proc[p].order_id

\* the columns an edit must leave alone
Ingested(row) ==
    [ order_id |-> row.order_id, store_id |-> row.store_id,
      order_type |-> row.order_type, customer_name |-> row.customer_name,
      phone |-> row.phone, address |-> row.address, pincode |-> row.pincode,
      status |-> row.status, final_status |-> row.final_status,
      attempts |-> row.attempts, assigned_to |-> row.assigned_to,
      assigned_at |-> row.assigned_at, completed_at |-> row.completed_at ]

\* the four values of a request as they are to be stored: without
\* surrounding blanks, the name cut at 200, the address at 500 and the
\* postal code at 10 characters
StoredValues ==
    [edit \in EditInputs |->
        [ customer_name |-> truncate(strip(edit.customer_name), 200),
          phone |-> strip(edit.phone),
          address |-> truncate(strip(edit.address), 500),
          pincode |-> truncate(strip(edit.pincode), 10) ]]

\* the edited columns of a row
Shadow(row) ==
    [ customer_name |-> row.edited_customer_name, phone |-> row.edited_phone,
      address |-> row.edited_address, pincode |-> row.edited_pincode ]

DigitChars == {"0", "1", "2", "3", "4", "5", "6", "7", "8", "9"}

DigitCount(s) == Cardinality({i \in 1..Len(s) : CharAt(s, i) \in DigitChars})

NonBlank(s) == \E i \in 1..Len(s) : CharAt(s, i) # " "

BadDigitCount(edit) == DigitCount(edit.phone) < 10 \/ DigitCount(edit.phone) > 15

\* name, phone and address are there
RequiredPresent(edit) ==
    NonBlank(edit.customer_name) /\ NonBlank(edit.phone) /\ NonBlank(edit.address)

AllFourPresent(edit) == RequiredPresent(edit) /\ NonBlank(edit.pincode)

\* C17 (as the spec states it), for a request that names an order of the
\* table: an edit request in which the name, the phone, the address or the
\* postal code is missing or empty never gets past validation, is answered
\* missing_fields, and has read no order, written none and attempted no
\* sync.
C17_MissingFieldRejected ==
    \A p \in Procs :
        (proc[p].op = "edit_order" /\ ~ AllFourPresent(proc[p].edit)
            /\ HasRow(proc[p].order_id)) =>
            /\ proc[p].pc \in {"validate", "done"}
            /\ proc[p].pc = "done" =>
                  /\ proc[p].result = "missing_fields"
                  /\ proc[p].order = NoRow
                  /\ proc[p].outcome = NULLTEXT

\* the edit of worker p's request is in the order's row
EditPersisted(p) ==
    \E k \in 1..Len(orders) :
        /\ orders[k].order_id = proc[p].order_id
        /\ Shadow(orders[k]) = proc[p].edit
        /\ orders[k].edited_at # NULL

\* the last-sync timestamp of the order of worker p's request
SyncedAt(p) ==
    LET k == CHOOSE k \in 1..Len(orders) :
                 orders[k].order_id = proc[p].order_id
    IN  orders[k].shopify_synced_at

\* C18: when an edit request is at the push to the source system, or past
\* it, the edit is in the order's row; a request whose push succeeded
\* answers success with sync = true after the last-sync timestamp has been
\* written; a request whose push failed or raised, or for which no client
\* was found, answers success with sync = false, the edit is still in the
\* row and the last-sync timestamp is the one the row had before the
\* request.
C18_EditThenSync ==
    \A p \in Procs :
        proc[p].op = "edit_order" =>
            /\ proc[p].pc \in {"sync", "mark_synced"} => EditPersisted(p)
            /\ proc[p].pc = "mark_synced" => proc[p].outcome = "ok"
            /\ (proc[p].pc = "done" /\ proc[p].outcome # NULLTEXT) =>
                  /\ proc[p].result = "success"
                  /\ EditPersisted(p)
                  /\ IF proc[p].outcome = "ok"
                     THEN proc[p].synced /\ SyncedAt(p) # NULL
                     ELSE /\ proc[p].outcome \in {"fail", "raise", "no_client"}
                          /\ ~ proc[p].synced
                          /\ SyncedAt(p) = proc[p].order.shopify_synced_at

\* C18 witness: the push of an edit has succeeded and the request has
\* answered with sync = true and the timestamp written.
C18_Witness ==
    \E p \in Procs :
        /\ proc[p].op = "edit_order" /\ proc[p].pc = "done"
        /\ proc[p].outcome = "ok" /\ proc[p].synced
        /\ proc[p].result = "success"
        /\ EditPersisted(p) /\ SyncedAt(p) # NULL

\* C18 second case: the client raised; the edit is in the row and there is
\* no timestamp.
C18_WitnessRaise ==
    \E p \in Procs :
        /\ proc[p].op = "edit_order" /\ proc[p].pc = "done"
        /\ proc[p].outcome = "raise" /\ ~ proc[p].synced
        /\ EditPersisted(p) /\ SyncedAt(p) = NULL

RowsHaveIdAndPhone ==
    \A k \in 1..Len(orders) :
        /\ orders[k].order_id \notin {"", NULLTEXT}
        /\ orders[k].phone \notin {"", NULLTEXT}

\* C19 (as the spec states it): no row of the table has an empty external
\* id or an empty phone; the insertion step of a record of any feed whose
\* id or phone is empty leaves the table as it is and counts the record as
\* skipped, and the loop goes on to the next record.
C19_NoEmptyIdOrPhone ==
    /\ []RowsHaveIdAndPhone
    /\ [][\A p \in Procs : InsertStep(p) =>
             LET raw == proc[p].batch[proc[p].i]
             IN  (raw.id = "" \/ raw.phone = "") =>
                    /\ orders' = orders
                    /\ proc'[p].skipped = proc[p].skipped + 1
                    /\ proc'[p].imported = proc[p].imported]_vars

\* an upload_carts request of worker p has answered
UploadAnswered(p) ==
    /\ proc[p].op = "ingest" /\ proc[p].pc = "done"
    /\ proc[p].total_rows > 0 /\ proc[p].result = "success"

\* C20: in every iteration of the loop of upload_carts exactly one of
\* imported and skipped grows by one, and imported grows exactly when the
\* iteration adds a row to the table; no other step of the request adds or
\* removes a row or changes the counts.  In the answer, imported + skipped
\* = total_rows, the preview has min(10, imported) entries, and they are
\* the first rows the request added to the table, in the order it added
\* them.
C20_UploadCounts ==
    /\ [][\A p \in Procs : proc[p].op = "ingest" =>
             IF InsertStep(p)
             THEN /\ proc'[p].imported - proc[p].imported
                        = Len(orders') - Len(orders)
                  /\ proc'[p].imported - proc[p].imported \in {0, 1}
                  /\ proc'[p].imported + proc'[p].skipped
                        = proc[p].imported + proc[p].skipped + 1
             ELSE /\ Len(orders') = Len(orders)
                  /\ proc'[p].op = "ingest" =>
                        /\ proc'[p].imported = proc[p].imported
                        /\ proc'[p].skipped = proc[p].skipped]_vars
    /\ [](\A p \in Procs : UploadAnswered(p) =>
             LET answer == proc[p]
                 first == Len(orders) - answer.imported
             IN /\ answer.imported + answer.skipped = answer.total_rows
                /\ Len(answer.preview_data) <= 10
                /\ Len(answer.preview_data) =
                      IF answer.imported < 10 THEN answer.imported ELSE 10
                /\ first >= 0
                /\ \A j \in 1..Len(answer.preview_data) :
                      answer.preview_data[j] = orders[first + j].order_id)

\* C20 witness: a file of 12 rows has been imported into a table that held
\* its first row: 11 imported, 1 skipped, a preview of 10 starting at the
\* second row of the file.
C20_Witness ==
    \E p \in Procs :
        /\ UploadAnswered(p)
        /\ proc[p].total_rows = 12
        /\ proc[p].imported = 11 /\ proc[p].skipped = 1
        /\ Len(proc[p].preview_data) = 10
        /\ proc[p].preview_data[1] = "CART-2"
        /\ Len(orders) = 12

\* a raw record is valid when it resolves to an external id and a phone
ValidRecord(raw) == raw.id # "" /\ raw.phone # ""

\* C21 (as the spec states it): one iteration of a batch's loop inserts the
\* record when it is valid and its external id is not in the table, and
\* leaves the table as it is otherwise; in both cases the loop goes on to
\* the next record, whatever the records before it did.
C21_ExactlyValidNew ==
    [][\A p \in Procs : InsertStep(p) =>
          LET q == proc[p]
              raw == q.batch[q.i]
              rec == Normalized(q.source, raw, q.default_store_id)
              fresh == rec.id # NULL /\ ~ HasRow(rec.order_id)
          IN  IF ValidRecord(raw) /\ fresh
              THEN /\ Len(orders') = Len(orders) + 1
                   /\ SubSeq(orders', 1, Len(orders)) = orders
                   /\ orders'[Len(orders')].order_id = rec.order_id
              ELSE orders' = orders]_vars

\* C22 (as the spec states it): a fetch whose feed failed for one store
\* while the batch holds the orders of the other stores still answers
\* success, with every valid order of the batch in the table and the
\* distribution run.
C22_FeedFailureTolerated ==
    \A p \in Procs :
        LET q == proc[p]
        IN  (q.op = "ingest" /\ q.pc = "done" /\ Len(q.batch) > 0) =>
               /\ q.result = "success"
               /\ settled
               /\ \A k \in 1..Len(q.batch) :
                     ValidRecord(q.batch[k]) =>
                        HasRow(Normalized(q.source, q.batch[k],
                                          q.default_store_id).order_id)

\* a row as create_order leaves it
StartsPending(row) ==
    /\ row.status = "pending" /\ row.attempts = 0
    /\ row.assigned_to = NULL /\ row.assigned_at = NULL
    /\ row.final_status = NULLTEXT /\ row.completed_at = NULL

\* C23: every row a step adds to the orders table, from the Shopify feed,
\* the abandoned-cart feed or a CSV file, starts with status pending,
\* attempts 0, no assigned caller, no final_status and no completed_at,
\* whatever the rows already in the table have become.
C23_NewRowsStartPending ==
    [][\A k \in (Len(orders) + 1)..Len(orders') : StartsPending(orders'[k])]_vars

\* C23 witness: an ingestion has just inserted a second order, which starts
\* pending, while the first order is confirmed after one call.
C23_Witness ==
    \E p \in Procs :
        /\ proc[p].op = "ingest" /\ proc[p].pc = "insert"
        /\ proc[p].imported = 1 /\ proc[p].i = 2
        /\ Len(orders) = 2
        /\ orders[1].status = "confirmed" /\ orders[1].attempts = 1
        /\ orders[2].order_id = "CART-7" /\ StartsPending(orders[2])

\* C24 (as the spec states it): when an ingestion request has answered
\* success, no order is pending whose store has an assignment for today.
C24_SuccessMeansDistributed ==
    \A p \in Procs :
        (proc[p].op = "ingest" /\ proc[p].pc = "done"
            /\ proc[p].result = "success") =>
           \A k \in 1..Len(orders) :
               orders[k].status = "pending" =>
                   AssignedToday(orders[k].store_id) = {}

\* the step of store_assignment by worker p
StoreAssignmentStep(p) ==
    proc[p].op = "idle" /\ proc'[p].op = "store_assignment"

AssignmentsUnique ==
    \A i, j \in 1..Len(store_assignments) :
        store_assignments[i] = store_assignments[j] => i = j

\* C25: the assignment table never holds two rows with the same store,
\* caller and date; a request for an assignment that exists leaves the
\* table as it is, a request for a new one appends it, and both answer
\* success.
C25_AssignmentsUnique ==
    /\ []AssignmentsUnique
    /\ [][\A p \in Procs : StoreAssignmentStep(p) =>
             LET a == proc'[p].assignments[1]
             IN  /\ proc'[p].pc = "done" /\ proc'[p].result = "success"
                 /\ store_assignments' =
                       IF a \in Range(store_assignments)
                       THEN store_assignments
                       ELSE Append(store_assignments, a)]_vars

\* C25 witness: the request for the assignment of store 1 to caller 2 has
\* answered while that assignment is the first row and a later row follows
\* it: the request found its row in the table.
C25_Witness ==
    \E p \in Procs :
        /\ proc[p].op = "store_assignment" /\ proc[p].pc = "done"
        /\ proc[p].result = "success"
        /\ Len(store_assignments) = 2
        /\ store_assignments[1] = proc[p].assignments[1]
        /\ store_assignments[2] # proc[p].assignments[1]

\* the step of CallLog by worker p
CallLogStep(p) ==
    /\ proc[p].op = "update_status" /\ proc[p].pc = "call_log"
    /\ proc'[p].pc = "update"

\* the position a disposition request is in before it reaches a position
PositionBefore ==
    [pc \in {"validate", "increment", "call_log", "update", "sync"} |->
        CASE pc = "validate" -> "idle"
          [] pc = "increment" -> "validate"
          [] pc = "call_log" -> "increment"
          [] pc = "update" -> "call_log"
          [] OTHER -> "update"]

\* C26: the call log only grows, by one row at a time and only in the
\* call-log step of a disposition request with an accepted code, and the
\* row carries the request's order, caller and code whatever the code's
\* classification; a request passes that step once, before its status
\* update, and answers success only after it.  No other step (ingestion,
\* distribution, reassign-caller, assign-all-to-caller, delete-all-orders)
\* changes or removes a row.
C26_CallLogAppendOnly ==
    [][/\ call_logs' # call_logs =>
             \E p \in Procs :
                /\ CallLogStep(p) /\ Accepted(proc[p].status)
                /\ Len(call_logs') = Len(call_logs) + 1
                /\ SubSeq(call_logs', 1, Len(call_logs)) = call_logs
                /\ LET row == call_logs'[Len(call_logs')]
                   IN /\ row.order_id = proc[p].order.id
                      /\ row.caller_id = proc[p].caller_id
                      /\ row.status = proc[p].status
       /\ \A p \in Procs :
             (proc'[p].op = "update_status" /\ proc'[p].pc # proc[p].pc) =>
                /\ proc'[p].pc # "done" =>
                      proc[p].pc = PositionBefore[proc'[p].pc]
                /\ (proc'[p].pc = "done" /\ proc'[p].result = "success") =>
                      proc[p].pc = "sync"
                /\ proc'[p].pc = "update" =>
                      Len(call_logs') = Len(call_logs) + 1]_vars

\* C26 witness: all orders have been deleted after a confirmation and a
\* retry code were recorded for order 1; both rows are in the call log.
C26_Witness ==
    /\ orders = <<>>
    /\ Len(call_logs) = 2
    /\ call_logs[1].order_id = 1 /\ call_logs[1].status = "Confirm on Call"
    /\ call_logs[2].order_id = 1 /\ call_logs[2].status = "Line Busy"

NoAssignmentToday ==
    \A k \in 1..Len(store_assignments) :
        store_assignments[k].assigned_date # Today

NoPendingOrder ==
    \A k \in 1..Len(orders) : orders[k].status # "pending"

\* C27: a step of distribute_orders taken while the assignment table has
\* no row for today, whatever rows it has for other dates, or while no
\* order is pending, leaves every order as it is; without a row for today
\* the run returns in its first step, unless the worker dies in it.
C27_DistributeNoOp ==
    [][\A p \in Procs : DistributeStep(p) =>
          /\ (NoAssignmentToday \/ NoPendingOrder) => orders' = orders
          /\ (NoAssignmentToday /\ proc'[p].op = "ingest") =>
                proc'[p].pc = "done"]_vars

\* C27 witness: a run has returned with an order of store 1 still pending,
\* while store 1 has an assignment for yesterday and none for today.
C27_Witness ==
    \E p \in Procs :
        /\ proc[p].op = "ingest" /\ proc[p].pc = "done"
        /\ proc[p].result = "success" /\ settled
        /\ NoAssignmentToday
        /\ \E a \in Range(store_assignments) :
              /\ a.assigned_date = Yesterday
              /\ \E k \in 1..Len(orders) :
                    /\ orders[k].status = "pending"
                    /\ orders[k].store_id = a.store_id

\* C28 (as the spec states it): in every reachable state an order whose
\* status is assigned has a caller in assigned_to.
C28_AssignedHasCaller ==
    \A k \in 1..Len(orders) :
        orders[k].status = "assigned" => orders[k].assigned_to # NULL

\* the requests for the order with internal id n that have incremented its
\* attempts and not yet written their call-log row
BetweenIncrementAndLog(n) ==
    {p \in Procs : /\ proc[p].op = "update_status"
                   /\ proc[p].pc = "call_log" /\ proc[p].order.id = n}

\* both workers have answered success for the same order
BothAnswered ==
    /\ \A p \in Procs : /\ proc[p].op = "update_status"
                        /\ proc[p].pc = "done"
                        /\ proc[p].result = "success"
    /\ proc[1].order_id = proc[2].order_id

\* C29: with two disposition requests running at the same time and
\* interleaving at any step, no increment is lost: the attempts of an order
\* equal its call-log rows plus the requests that have incremented and not
\* yet logged, so two requests that complete add two rows and raise
\* attempts by two.  Each status update writes the status and final_status
\* of its own request and nothing else writes them, so the values stored
\* when both have completed are those of the update that came last.
C29_ConcurrentDispositions ==
    /\ [](\A k \in 1..Len(orders) :
             orders[k].attempts =
                 Cardinality(LogsOf(orders[k].id))
                   + Cardinality(BetweenIncrementAndLog(orders[k].id)))
    /\ [](BothAnswered =>
             /\ \E i, j \in 1..Len(call_logs) :
                   /\ i # j
                   /\ call_logs[i].status = proc[1].status
                   /\ call_logs[j].status = proc[2].status
             /\ \E k \in 1..Len(orders), p \in Procs :
                   /\ orders[k].order_id = proc[p].order_id
                   /\ orders[k].status = Classified(proc[p].status)
                   /\ orders[k].final_status = proc[p].status)
    /\ [][\A k \in 1..Len(orders) :
             IF \E p \in Procs : /\ UpdateStatusStep(p)
                                 /\ proc[p].order_id = orders[k].order_id
             THEN \E p \in Procs :
                     /\ UpdateStatusStep(p)
                     /\ orders'[k].status = Classified(proc[p].status)
                     /\ orders'[k].final_status = proc[p].status
             ELSE /\ orders'[k].status = orders[k].status
                  /\ orders'[k].final_status = orders[k].final_status]_vars

\* C29 witness: both requests have answered, one for "Confirm on Call" and
\* one for "cancel on text"; attempts is 2 and both rows are in the log,
\* the cancellation last, while the stored status is that of the
\* confirmation, whose status update came last.
C29_Witness ==
    /\ BothAnswered
    /\ Len(call_logs) = 2 /\ orders[1].attempts = 2
    /\ call_logs[1].status = "Confirm on Call"
    /\ call_logs[2].status = "cancel on text"
    /\ orders[1].status = "confirmed"
    /\ orders[1].final_status = "Confirm on Call"

\* the intents recorded for an order
IntentsOf(order_id) ==
    {j \in 1..Len(intents) : intents[j].order_id = order_id}

\* C30 (as the spec states it): when no disposition request is in flight,
\* the tag of the last sync intent recorded for an order is the tag that
\* mirrors the order's stored status.
C30_LastIntentMatchesStatus ==
    (\A p \in Procs : proc[p].pc \in {"idle", "done"}) =>
        \A k \in 1..Len(orders) :
            LET js == IntentsOf(orders[k].order_id)
            IN  js # {} =>
                   LET last == CHOOSE j \in js : \A i \in js : i <= j
                   IN  intents[last].tag = TagOf(orders[k].status)

\* the step in which worker p's disposition request calls the store client
DispositionCallStep(p) ==
    /\ proc[p].op = "update_status" /\ proc[p].pc = "sync"
    /\ proc'[p].pc = "done"

\* the step in which worker p's edit request calls the store client
EditCallStep(p) ==
    /\ proc[p].op = "edit_order" /\ proc[p].pc = "sync"
    /\ proc'[p].pc \in {"mark_synced", "done"}

\* the writes of worker p's disposition request are in the tables
DispositionCommitted(p) ==
    /\ \E k \in 1..Len(orders) :
          /\ orders[k].order_id = proc[p].order_id
          /\ orders[k].attempts = proc[p].order.attempts + 1
          /\ orders[k].status = Classified(proc[p].status)
          /\ orders[k].final_status = proc[p].status
    /\ Len(call_logs) > 0
    /\ call_logs[Len(call_logs)].order_id = proc[p].order.id
    /\ call_logs[Len(call_logs)].status = proc[p].status

\* the step of the client call writes no table, and the request's writes
\* are in the tables before it
CallAfterCommit ==
    \A p \in Procs :
        /\ DispositionCallStep(p) =>
              /\ DispositionCommitted(p)
              /\ orders' = orders /\ call_logs' = call_logs
        /\ EditCallStep(p) =>
              /\ EditPersisted(p)
              /\ orders' = orders /\ call_logs' = call_logs

\* worker p's edit request is past its client call and has not answered
AfterEditCall(p) == proc[p].op = "edit_order" /\ proc[p].pc = "mark_synced"

\* C31 (as the spec states it): the store client is called in a step that
\* writes no table, after the request's writes are in the tables, and a
\* request that is past its client call writes nothing more.
C31_CallAfterEveryWrite ==
    [][/\ CallAfterCommit
       /\ \A p \in Procs : AfterEditCall(p) => orders' = orders]_vars

\* C31 (amended): the store client is called in a step that writes no
\* table, after the request's attempts, call-log row and status, or its
\* edit, are in the tables; the only write of a request that is past its
\* client call is the last-sync timestamp of the edited order, written in
\* a step of its own after the call succeeded.
C31_CallAfterCommit ==
    [][/\ CallAfterCommit
       /\ \A p \in Procs : AfterEditCall(p) =>
             /\ proc[p].outcome = "ok"
             /\ Len(orders') = Len(orders)
             /\ \A k \in 1..Len(orders) :
                   [orders'[k] EXCEPT !.shopify_synced_at = NULL]
                      = [orders[k] EXCEPT !.shopify_synced_at = NULL]]_vars

\* C31 witness: an edit request has answered after its push succeeded and
\* the timestamp was written, while the order carries the attempt, status
\* and code of a disposition recorded before.
C31_Witness ==
    \E p \in Procs :
        /\ proc[p].op = "edit_order" /\ proc[p].pc = "done"
        /\ proc[p].outcome = "ok" /\ proc[p].synced
        /\ EditPersisted(p) /\ SyncedAt(p) # NULL
        /\ Len(intents) = 1 /\ intents[1].calls = 1
        /\ \E k \in 1..Len(orders) :
              /\ orders[k].order_id = proc[p].order_id
              /\ orders[k].attempts = 1
              /\ orders[k].final_status = "Line Busy"

\* the rows of the assignment table for today, in the order of the table
TodayRows ==
    SelectRows(store_assignments,
               {a \in Range(store_assignments) : a.assigned_date = Today}, 1)

\* where an agent first appears among today's rows, and the agent's stores
FirstSeen(c) ==
    CHOOSE i \in 1..Len(TodayRows) :
        /\ TodayRows[i].caller_id = c
        /\ \A j \in 1..(i - 1) : TodayRows[j].caller_id # c

StoreSet(c) == {a.store_id : a \in {x \in Range(TodayRows) : x.caller_id = c}}

AgentsOf(store_id) ==
    {c \in {a.caller_id : a \in Range(TodayRows)} : store_id \in StoreSet(c)}

\* C32: under an unchanged assignment table, every order that a run of
\* distribute_orders has assigned is with the first agent, in the order
\* agents first appear among today's rows, whose stores contain the
\* order's store; so all orders of a store, of one run or of successive
\* runs, are with the same agent.
C32_FirstAgentOfStore ==
    \A k \in 1..Len(orders) :
        orders[k].status = "assigned" =>
            /\ orders[k].assigned_to \in AgentsOf(orders[k].store_id)
            /\ \A c \in AgentsOf(orders[k].store_id) :
                   FirstSeen(orders[k].assigned_to) <= FirstSeen(c)
            /\ \A j \in 1..Len(orders) :
                   (orders[j].status = "assigned"
                       /\ orders[j].store_id = orders[k].store_id) =>
                      orders[j].assigned_to = orders[k].assigned_to

\* C32 witness: caller 3 appears first, with store 2, and caller 2 has the
\* first row of store 1; a run has given both orders of store 1 to
\* caller 3.
C32_Witness ==
    /\ store_assignments =
          << [store_id |-> 2, caller_id |-> 3, assigned_date |-> Today],
             [store_id |-> 1, caller_id |-> 2, assigned_date |-> Today],
             [store_id |-> 1, caller_id |-> 3, assigned_date |-> Today] >>
    /\ Len(orders) = 2
    /\ \A k \in 1..2 : /\ orders[k].store_id = 1
                       /\ orders[k].status = "assigned"
                       /\ orders[k].assigned_to = 3
    /\ \E p \in Procs : /\ proc[p].op = "ingest" /\ proc[p].pc = "done"
                        /\ Len(proc[p].pending_orders) = 2

\* the external ids in the queue db.get_orders_for_caller gives a caller
QueueIds(caller_id) ==
    {r.order_id : r \in Range(get_orders_for_caller(orders, caller_id))}

\* worker p's disposition request has answered success for a retry code
RetryAnswered(p) ==
    /\ proc[p].op = "update_status" /\ proc[p].pc = "done"
    /\ proc[p].result = "success"
    /\ Classified(proc[p].status) = "assigned"

\* C33: no step of a disposition request changes the assigned_to or the
\* assigned_at of any order, whichever caller submits it; when a request
\* with a retry code has answered for an order that is assigned to a
\* caller, the order is in that caller's queue and in no other caller's,
\* also when another caller submitted the request, and the last call-log
\* row names the submitting caller.
C33_DispositionKeepsAssignee ==
    /\ [][\A p \in Procs : proc[p].op = "update_status" =>
             /\ Len(orders') = Len(orders)
             /\ \A k \in 1..Len(orders) :
                   /\ orders'[k].assigned_to = orders[k].assigned_to
                   /\ orders'[k].assigned_at = orders[k].assigned_at]_vars
    /\ [](\A p \in Procs : RetryAnswered(p) =>
             /\ call_logs[Len(call_logs)].caller_id = proc[p].caller_id
             /\ call_logs[Len(call_logs)].order_id = proc[p].order.id
             /\ \A k \in 1..Len(orders) :
                   (orders[k].order_id = proc[p].order_id
                       /\ orders[k].assigned_to # NULL) =>
                      /\ orders[k].assigned_to = proc[p].order.assigned_to
                      /\ \A c \in CallerIds :
                            proc[p].order_id \in QueueIds(c)
                               <=> c = orders[k].assigned_to)

\* C33 witness: caller 2 has recorded "Line Busy" for an order assigned to
\* caller 3; the order is in caller 3's queue and not in caller 2's, and
\* the call-log row names caller 2.
C33_Witness ==
    \E p \in Procs :
        /\ RetryAnswered(p) /\ proc[p].caller_id = 2
        /\ proc[p].order.assigned_to = 3
        /\ proc[p].order_id \in QueueIds(3)
        /\ proc[p].order_id \notin QueueIds(2)
        /\ call_logs[Len(call_logs)].caller_id = 2

\* worker p's queue read has answered
QueueAnswered(p) == proc[p].op = "get_queue" /\ proc[p].pc = "done"

\* C34: a queue read for a caller returns each order whose assigned_to is
\* that caller and whose status is assigned, once, and nothing else, in the
\* order the orders were created; and in every state a confirmed or
\* cancelled order is in no caller's queue and no order is in the queues of
\* two callers.
C34_QueueExact ==
    /\ \A p \in Procs : QueueAnswered(p) =>
          LET list == proc[p].orders_list
          IN  /\ {e.order_id : e \in Range(list)} =
                    {orders[k].order_id : k \in
                        {n \in 1..Len(orders) :
                            /\ orders[n].assigned_to = proc[p].caller_id
                            /\ orders[n].status = "assigned"}}
              /\ \A i, j \in 1..Len(list) : i < j => list[i].id < list[j].id
    /\ \A k \in 1..Len(orders), c \in CallerIds :
          orders[k].order_id \in QueueIds(c) =>
             /\ orders[k].status \notin {"confirmed", "cancelled"}
             /\ \A d \in CallerIds : orders[k].order_id \in QueueIds(d) => d = c

\* C34 witness: the queue read for caller 2 has returned order CART-7 and
\* not order "#1", which is assigned to caller 2 and confirmed.
C34_Witness ==
    \E p \in Procs :
        /\ QueueAnswered(p) /\ proc[p].caller_id = 2
        /\ Len(proc[p].orders_list) = 1
        /\ proc[p].orders_list[1].order_id = "CART-7"
        /\ orders[1].order_id = "#1" /\ orders[1].assigned_to = 2
        /\ orders[1].status = "confirmed"

\* the known stores whose name occurs in a label, whatever the case
StoresNamedIn(label) ==
    {k \in 1..Len(shopify_stores) :
        contains(lower(label), lower(shopify_stores[k].name))}

\* the known stores a supplied default names
StoresWithId(dflt) ==
    {k \in 1..Len(shopify_stores) : IdText(shopify_stores[k].id) = dflt}

\* the store the spec gives a bulk-import row
ResolvedStore(label, dflt) ==
    IF label # "" /\ StoresNamedIn(label) # {}
    THEN shopify_stores[CHOOSE k \in StoresNamedIn(label) :
                           \A j \in StoresNamedIn(label) : k <= j].id
    ELSE IF dflt # "" /\ StoresWithId(dflt) # {}
    THEN shopify_stores[CHOOSE k \in StoresWithId(dflt) : TRUE].id
    ELSE shopify_stores[1].id

\* C35: the order a bulk-import row creates belongs to the first known
\* store whose name occurs, in any case, in the row's label; without such
\* a store, or with an empty label, to the default store of the request;
\* and without a default, or with one that names no known store, to the
\* first store.
C35_StoreResolution ==
    [][\A p \in Procs :
          (InsertStep(p) /\ proc[p].source = "csv"
              /\ Len(orders') = Len(orders) + 1) =>
             LET raw == proc[p].batch[proc[p].i]
             IN  orders'[Len(orders')].store_id =
                    ResolvedStore(raw.store, proc[p].default_store_id)]_vars

\* C35 witness: a row labelled "paaltubazaar x mummamitra", uploaded with
\* default store 3, has created an order of store 2 (Mummamitra, the first
\* of the two stores named), after an earlier upload created an order of
\* store 1.
C35_Witness ==
    \E p \in Procs :
        /\ proc[p].op = "ingest" /\ proc[p].pc = "insert"
        /\ proc[p].i = 2 /\ proc[p].imported = 1
        /\ proc[p].batch[1].store = "paaltubazaar x mummamitra"
        /\ proc[p].default_store_id = "3"
        /\ Len(orders) = 2
        /\ orders[1].store_id = 1 /\ orders[2].store_id = 2

\* a text as the claim has it persisted: its first n characters when it is
\* longer than n, itself otherwise
FirstChars(text, n) == IF Len(text) > n THEN SubSeq(text, 1, n) ELSE text

\* the request of p passes validation in this step
EditAccepted(p) ==
    /\ proc[p].op = "edit_order" /\ proc[p].pc = "validate"
    /\ proc'[p].pc = "update_edits"

\* the request of p is rejected in this step
EditRejected(p) ==
    /\ proc[p].op = "edit_order" /\ proc[p].pc = "validate"
    /\ proc'[p].pc = "done"

\* the update of p's handler is committed in this step
EditSaved(p) ==
    /\ proc[p].op = "edit_order" /\ proc[p].pc = "update_edits"
    /\ proc'[p].pc = "sync"

\* the row of order_id holds these three texts in its edited fields
EditedTexts(ords, order_id, customer_name, address, pincode) ==
    \E k \in 1..Len(ords) :
        /\ ords[k].order_id = order_id
        /\ ords[k].edited_customer_name = customer_name
        /\ ords[k].edited_address = address
        /\ ords[k].edited_pincode = pincode

\* a request is rejected only for a missing field, for the digits of its
\* phone or for an unknown order, whatever the length of its texts
NoLengthRejection ==
    \A p \in Procs :
        EditRejected(p) =>
            \/ missing_fields(proc[p].order_id, proc[p].edit)
            \/ invalid_phone(strip(proc[p].edit.phone))
            \/ get_order_by_id(orders, proc[p].order_id) = NoRow

\* what validation hands on is what the update stores
SavedAsValidated ==
    \A p \in Procs :
        EditSaved(p) =>
            EditedTexts(orders', proc[p].order_id, proc[p].edit.customer_name,
                        proc[p].edit.address, proc[p].edit.pincode)

\* C36 as stated: editOrder never rejects a request for the length of its
\* texts, and persists the name, the address and the postal code submitted
\* cut to their first 200, 500 and 10 characters, unchanged when they are
\* not longer.
C36_TruncatesSubmitted ==
    [][/\ NoLengthRejection
       /\ SavedAsValidated
       /\ \A p \in Procs :
             EditAccepted(p) =>
                LET raw == proc[p].edit
                    held == proc'[p].edit
                IN  /\ held.customer_name =
                          FirstChars(raw.customer_name, NameLimit)
                    /\ held.address = FirstChars(raw.address, AddressLimit)
                    /\ held.pincode = FirstChars(raw.pincode, PincodeLimit)]_vars

\* C36 (amended): editOrder never rejects a request for the length of its
\* texts, and persists the name, the address and the postal code, each
\* without its surrounding blanks, cut to their first 200, 500 and 10
\* characters, unchanged when they are not longer.
C36_TruncatesStripped ==
    [][/\ NoLengthRejection
       /\ SavedAsValidated
       /\ \A p \in Procs :
             EditAccepted(p) =>
                LET raw == proc[p].edit
                    held == proc'[p].edit
                IN  /\ held.customer_name =
                          FirstChars(strip(raw.customer_name), NameLimit)
                    /\ held.address =
                          FirstChars(strip(raw.address), AddressLimit)
                    /\ held.pincode =
                          FirstChars(strip(raw.pincode), PincodeLimit)]_vars

\* C36 witness: order "#1" holds a name of 200 characters "a" and an
\* address of 500 characters "r", left by a request whose address had 501
\* characters.
C36_Witness ==
    /\ EditedTexts(orders, "#1", Rep("a", NameLimit), Rep("r", AddressLimit),
                   "5600021234")
    /\ \E p \in Procs : proc[p].op = "edit_order" /\ proc[p].pc = "sync"

\* an id without the prefix "CART-" it may carry
BareId(id) == IF startswith(id, "CART-") THEN SubSeq(id, 6, Len(id)) ELSE id

\* the external id the claim gives a bulk-import record
CartExternalId(source, raw) ==
    IF source = "csv" THEN "CART-" \o BareId(raw.id) ELSE "CART-" \o raw.id

\* the rows that carry an external id
RowsOf(ords, order_id) == {k \in 1..Len(ords) : ords[k].order_id = order_id}

\* C37: a CSV row with id X or CART-X and a Shiprocket cart with id X all
\* resolve to the external id CART-X, normalising that id once more gives
\* it back, and a record whose external id a row already carries creates
\* no row: at most one row ever carries it, and it is the first.
C37_CartIdsResolveAlike ==
    [][\A p \in Procs :
          (InsertStep(p) /\ proc[p].source \in {"csv", "abandoned_cart"}
              /\ proc[p].batch[proc[p].i].id # "") =>
             LET raw == proc[p].batch[proc[p].i]
                 ext == CartExternalId(proc[p].source, raw)
             IN  /\ parse_csv_row([raw EXCEPT !.id = ext],
                                  shopify_stores[1]).order_id = ext
                 /\ IF RowsOf(orders, ext) # {}
                    THEN orders' = orders
                    ELSE /\ Len(orders') = Len(orders) + 1
                         /\ SubSeq(orders', 1, Len(orders)) = orders
                         /\ orders'[Len(orders')].order_id = ext
                 /\ Cardinality(RowsOf(orders', ext)) = 1]_vars

\* C37 witness: the only row is "CART-7" of store 2, which neither of the
\* two requests under way could have created; one of them, a CSV file with
\* the row "CART-7", and the other, the Shiprocket cart "7", have both been
\* through their loop without creating a row.
C37_Witness ==
    /\ Len(orders) = 1
    /\ orders[1].order_id = "CART-7" /\ orders[1].store_id = 2
    /\ \E p1, p2 \in Procs :
          /\ proc[p1].op = "ingest" /\ proc[p1].pc = "insert"
          /\ proc[p1].source = "csv" /\ proc[p1].i = 2
          /\ proc[p1].batch[1].id = "CART-7"
          /\ proc[p1].default_store_id = ""
          /\ proc[p1].imported = 0
          /\ proc[p2].op = "ingest" /\ proc[p2].pc = "insert"
          /\ proc[p2].source = "abandoned_cart" /\ proc[p2].i = 2
          /\ proc[p2].batch[1].store = "Unknown"
          /\ proc[p2].imported = 0

\* p is in a call of _request
InRequest(p) == proc[p].op = "request"

\* the call of p has returned
Returned(p) == proc[p].op = "request" /\ proc[p].pc = "done"

\* the service answers the request of p in this step
ResponseStep(p) ==
    /\ proc[p].op = "request" /\ proc[p].pc = "send"
    /\ proc'[p].op = "request"

\* an exception is handled in the call of p in this step
HandlerStep(p) ==
    /\ proc[p].op = "request" /\ proc[p].pc = "except"
    /\ proc'[p].op = "request"

\* attempts made, and what a returned call hands back: never an exception,
\* JSON only after a 200, and None only after a status other than 200, 401
\* and 429 or with every attempt used
RequestResults ==
    \A p \in Procs :
        InRequest(p) =>
            /\ proc[p].attempt <= proc[p].retries
            /\ Returned(p) =>
                  /\ proc[p].result \in {"json", "None"}
                  /\ proc[p].result = "json" <=> proc[p].response = "200"
                  /\ proc[p].result = "None" =>
                        \/ proc[p].response = "500"
                        \/ proc[p].attempt = proc[p].retries

\* what the call does with each answer, and with an exception
RequestBranches ==
    \A p \in Procs :
        /\ ResponseStep(p) =>
              CASE proc'[p].response = "200" ->
                      Returned(p)' /\ proc'[p].result = "json"
                [] proc'[p].response = "500" ->
                      Returned(p)' /\ proc'[p].result = "None"
                [] proc'[p].response = "401" ->
                      ~ Returned(p)' /\ proc'[p].pc = "authenticate"
                [] proc'[p].response = "429" ->
                      ~ Returned(p)' /\ proc'[p].pc = "for"
                [] OTHER -> ~ Returned(p)' /\ proc'[p].pc = "except"
        /\ HandlerStep(p) =>
              /\ proc'[p].attempt = proc[p].attempt
              /\ IF proc[p].attempt < proc[p].retries
                 THEN ~ Returned(p)' /\ proc'[p].pc = "for"
                 ELSE Returned(p)' /\ proc'[p].result = "None"

\* C38: a call of _request makes at most retries attempts, returns, and
\* never raises: it returns the JSON body on the first 200, None at once
\* on a status other than 200, 401 and 429, logs in again and retries on
\* 401, retries on 429, counts an exception (a failed login included) as
\* an attempt made, and returns None when the attempts are used up.
C38_RequestRetries ==
    /\ []RequestResults
    /\ [][RequestBranches]_vars
    /\ \A p \in Procs : InRequest(p) ~> Returned(p)

\* C38 witness: a GET with the default three attempts has returned None
\* with its third attempt answered 429.
C38_Witness ==
    \E p \in Procs :
        /\ Returned(p) /\ proc[p].result = "None"
        /\ proc[p].method = "GET"
        /\ proc[p].retries = DefaultRetries
        /\ proc[p].attempt = DefaultRetries
        /\ proc[p].response = "429"

====
